---- MODULE Spec2Model ----
(***************************************************************************)
(* Task management backend (crehana_fastapi).                              *)
(*                                                                         *)
(* Two layers of the repository are modelled:                              *)
(*   - the pure domain entity app.domain.models.task.Task and its          *)
(*     lifecycle methods (specification SpecTask);                         *)
(*   - the request path: the FastAPI task endpoints and the use cases      *)
(*     working on the stored (SQLAlchemy) task rows (specification Spec).  *)
(***************************************************************************)
EXTENDS Integers, Sequences, FiniteSets, TLC

(* ----------------------------- bounds ---------------------------------- *)
\* readings of datetime.now() range over 1..MaxClock
MaxClock == 2
\* user ids range over 1..MaxUsers
MaxUsers == 2
\* stored task ids range over 1..MaxTasks
MaxTasks == 1

(* ----------------------------- values ---------------------------------- *)
\* Python None for the Optional[int] / Optional[datetime] fields; ids and
\* clock readings are all >= 1
None == 0
\* Python None for Optional[str]
NoneStr == "None"

pending == "pending"
in_progress == "in_progress"
completed == "completed"
TaskStatus == {pending, in_progress, completed}

low == "low"
medium == "medium"
high == "high"
TaskPriority == {low, medium, high}

Times == 1..MaxClock
UserIds == 1..MaxUsers
TaskIds == 1..MaxTasks
\* the names requests give to task lists; names are unique among the stored
\* lists, so there are at most as many lists as names
ListNames == {"Sprint 1"}
ListIds == 1..Cardinality(ListNames)
Titles == {"Fix bug", "Write docs"}
Descriptions == {NoneStr, "details"}

VARIABLES
    clock,      \* the current reading of datetime.now()
    task,       \* the domain Task entity (a dataclass instance)
    last,       \* the last call made on the entity: method, argument, the
                \* reading of datetime.now() at the call, whether it raised,
                \* and the entity as it was before the call
    prevOp,     \* the method called before the last one
    dbTasks,    \* table task: id -> row, for the ids that are stored
    dbUsers,    \* table user: the ids that are stored
    dbLists,    \* table task_list: id -> row, for the ids that are stored
    resp,       \* the last request handled and its response
    notifs,     \* the notifications issued by the last request, in order
    ret,        \* the last call made directly on a use case or on a value
                \* object: the callee, its arguments and its outcome
    reqs        \* the requests in flight: for each worker the statement its
                \* request is at and the local variables of the endpoint

vars ==
    <<clock, task, last, prevOp, dbTasks, dbUsers, dbLists, resp, notifs, ret,
      reqs>>

(***************************************************************************)
(* Domain entity: app/domain/models/task.py                                *)
(***************************************************************************)

\* The constructor's keyword arguments are a record of the dataclass fields;
\* created_at / updated_at are None when the caller does not supply them.

\* Task.__post_init__: fill the timestamps that were not provided.
post_init(self, now) ==
    LET c == IF self.created_at = None THEN now ELSE self.created_at
        u == IF self.updated_at = None THEN c ELSE self.updated_at
    IN [self EXCEPT !.created_at = c, !.updated_at = u]

\* a transition table in which completed is terminal
valid_transitions_terminal(from_status) ==
    CASE from_status = pending -> {in_progress, completed}
      [] from_status = in_progress -> {pending, completed}
      [] OTHER -> {}

\* the dict valid_transitions of Task._is_valid_status_transition
valid_transitions(from_status) ==
    CASE from_status = pending -> {in_progress, completed}
      [] from_status = in_progress -> {pending, completed}
      [] from_status = completed -> {pending, in_progress}
      [] OTHER -> {}

is_valid_status_transition(from_status, to_status) ==
    to_status \in valid_transitions(from_status)

\* The outcome of a method call: the entity afterwards and whether it raised.
Returned(self) == [raised |-> FALSE, task |-> self]
Raised(self) == [raised |-> TRUE, task |-> self]

\* change_status refreshing updated_at before it validates the transition
change_status_touch_first(self, new_status, now) ==
    IF ~is_valid_status_transition(self.status, new_status)
    THEN Raised([self EXCEPT !.updated_at = now])
    ELSE Returned([self EXCEPT !.status = new_status, !.updated_at = now])

change_status(self, new_status, now) ==
    IF ~is_valid_status_transition(self.status, new_status)
    THEN Raised(self)
    ELSE Returned([self EXCEPT !.status = new_status, !.updated_at = now])

assign_to_user(self, user_id, now) ==
    Returned([self EXCEPT !.user_id = user_id, !.updated_at = now])

\* unassign_user putting the task back to pending as well
unassign_user_resets_status(self, now) ==
    Returned([self EXCEPT !.user_id = None, !.status = pending,
                          !.updated_at = now])

unassign_user(self, now) ==
    Returned([self EXCEPT !.user_id = None, !.updated_at = now])

update_title(self, new_title, now) ==
    Returned([self EXCEPT !.title = new_title, !.updated_at = now])

update_description(self, new_description, now) ==
    Returned([self EXCEPT !.description = new_description, !.updated_at = now])

\* change_priority forgetting to refresh updated_at
change_priority_no_touch(self, new_priority, now) ==
    Returned([self EXCEPT !.priority = new_priority])

change_priority(self, new_priority, now) ==
    Returned([self EXCEPT !.priority = new_priority, !.updated_at = now])

is_completed(self) == self.status = completed
is_assigned(self) == self.user_id # None

\* ---- the state machine of one entity --------------------------------------

\* A call of a method on the entity: the entity becomes the call's outcome and
\* the call is recorded.
Call(op, arg, out) ==
    /\ task' = out.task
    /\ last' = [op |-> op, arg |-> arg, now |-> clock, raised |-> out.raised,
                before |-> task]
    /\ prevOp' = last.op
    /\ UNCHANGED <<clock, dbTasks, dbUsers, dbLists, resp, notifs, ret, reqs>>

Task_change_status ==
    \E new_status \in TaskStatus :
        Call("change_status", new_status, change_status(task, new_status, clock))

Task_assign_to_user ==
    \E user_id \in UserIds :
        Call("assign_to_user", user_id, assign_to_user(task, user_id, clock))

Task_unassign_user ==
    Call("unassign_user", None, unassign_user(task, clock))

Task_update_title ==
    \E new_title \in Titles :
        Call("update_title", new_title, update_title(task, new_title, clock))

Task_update_description ==
    \E new_description \in Descriptions :
        Call("update_description", new_description,
             update_description(task, new_description, clock))

Task_change_priority ==
    \E new_priority \in TaskPriority :
        Call("change_priority", new_priority,
             change_priority(task, new_priority, clock))

\* Time passes: the next datetime.now() reads a later value. Two calls with no
\* Tick between them read the same value.
Tick ==
    /\ clock < MaxClock
    /\ clock' = clock + 1
    /\ UNCHANGED <<task, last, prevOp, dbTasks, dbUsers, dbLists, resp, notifs,
                   ret, reqs>>

NoResp == [op |-> "none", code |-> 0, task_id |-> None, arg |-> None,
           before |-> [id |-> None], results |-> <<>>, body |-> <<>>]

\* no direct call was made yet
NoRet == [op |-> "none"]

\* no request is in flight
NoReqs == <<>>

\* no request was handled yet
NoRequest ==
    /\ resp = NoResp
    /\ notifs = <<>>
    /\ ret = NoRet
    /\ reqs = NoReqs

ApiIdle ==
    /\ dbTasks = <<>>
    /\ dbUsers = {}
    /\ dbLists = <<>>
    /\ NoRequest

\* Construction of the entity, Task(title=..., task_list_id=..., ...), at any
\* moment, with or without the optional keyword arguments.
InitTask ==
    /\ clock \in Times
    /\ \E title \in Titles, task_list_id \in {1}, id \in {None, 1},
          description \in Descriptions, status \in TaskStatus,
          priority \in TaskPriority, user_id \in {None} \cup UserIds,
          created_at \in {None} \cup Times, updated_at \in {None} \cup Times :
        /\ task = post_init([title |-> title, task_list_id |-> task_list_id,
                             id |-> id, description |-> description,
                             status |-> status, priority |-> priority,
                             user_id |-> user_id, created_at |-> created_at,
                             updated_at |-> updated_at], clock)
        /\ last = [op |-> "init",
                   arg |-> [created_at |-> created_at, updated_at |-> updated_at],
                   now |-> clock, raised |-> FALSE, before |-> task]
    /\ prevOp = "none"
    /\ ApiIdle

NextTask ==
    \/ Task_change_status
    \/ Task_assign_to_user
    \/ Task_unassign_user
    \/ Task_update_title
    \/ Task_update_description
    \/ Task_change_priority
    \/ Tick

SpecTask == InitTask /\ [][NextTask]_vars

(***************************************************************************)
(* Request path: app/api/v1/endpoints, app/use_cases, app/services         *)
(*                                                                         *)
(* A stored task is a row of table task (app/infrastructure/db/models);    *)
(* the timestamp columns of the rows are not part of the model.            *)
(***************************************************************************)

InitApi ==
    /\ clock = 1
    /\ task = post_init([title |-> "Fix bug", task_list_id |-> 1, id |-> None,
                         description |-> NoneStr, status |-> pending,
                         priority |-> medium, user_id |-> None,
                         created_at |-> None, updated_at |-> None], clock)
    /\ last = [op |-> "init",
               arg |-> [created_at |-> None, updated_at |-> None],
               now |-> clock, raised |-> FALSE, before |-> task]
    /\ prevOp = "none"
    /\ ApiIdle

\* the database a request works on
Db == [tasks |-> dbTasks, users |-> dbUsers, lists |-> dbLists]

\* the id the store gives the next inserted row of a table
NextId(table) ==
    IF DOMAIN table = {} THEN 1
    ELSE (CHOOSE i \in DOMAIN table : \A j \in DOMAIN table : j <= i) + 1

\* BaseRepository.create: add, commit, refresh
create(table, entity) ==
    LET id == NextId(table)
    IN [i \in DOMAIN table \cup {id} |->
            IF i = id THEN [entity EXCEPT !.id = id] ELSE table[i]]

\* BaseRepository.get_by_id is `id \in DOMAIN table` and table[id]

\* TaskListRepository.get_by_name: whether a stored list has the name
get_by_name(lists, name) == {i \in DOMAIN lists : lists[i].name = name}

\* UserService.get_user_by_id / get_user_by_email: the stored user or None.
\* Users are named by the order of registration: user i has e-mail i.
get_user_by_id(users, user_id) == IF user_id \in users THEN user_id ELSE None
get_user_by_email(users, email) == IF email \in users THEN email ELSE None

\* get_current_user: the user the bearer token names. A token is None when it
\* is missing or does not verify, else the e-mail it carries as subject.
get_current_user(users, token) ==
    IF token = None THEN None ELSE get_user_by_email(users, token)

\* ---- EmailNotificationService -----------------------------------------------
\* The outcome of a notification operation: whether it raised, the boolean it
\* returned and the e-mails it logged. `fails` says whether building or
\* logging the message fails inside the operation's try block.

Mail(kind, to, row, old_status) ==
    [kind |-> kind, to |-> to, task_id |-> row.id, old_status |-> old_status,
     status |-> row.status]

\* the failure is caught, logged, and reported as False
Failed == [raised |-> FALSE, result |-> FALSE, mails |-> <<>>]
Sent(mail) == [raised |-> FALSE, result |-> TRUE, mails |-> <<mail>>]

send_task_assignment_notification(row, assigned_user, fails) ==
    IF fails THEN Failed
    ELSE Sent(Mail("assignment", assigned_user, row, NoneStr))

send_task_unassignment_notification(row, unassigned_user, fails) ==
    IF fails THEN Failed
    ELSE Sent(Mail("unassignment", unassigned_user, row, NoneStr))

\* the status-change notification letting its internal failure escape
send_task_status_change_notification_raises(row, old_status, assigned_user, fails) ==
    IF assigned_user = None
    THEN [raised |-> FALSE, result |-> TRUE, mails |-> <<>>]
    ELSE IF fails THEN [raised |-> TRUE, result |-> FALSE, mails |-> <<>>]
    ELSE Sent(Mail("status_change", assigned_user, row, old_status))

send_task_status_change_notification(row, old_status, assigned_user, fails) ==
    IF assigned_user = None
    THEN [raised |-> FALSE, result |-> TRUE, mails |-> <<>>]
    ELSE IF fails THEN Failed
    ELSE Sent(Mail("status_change", assigned_user, row, old_status))

\* ---- outcomes -------------------------------------------------------------

\* what a request leaves behind: the status code, the database, the e-mails
\* logged and the results the notification operations returned
Http(code, db, mails) ==
    [code |-> code, db |-> db, mails |-> mails, results |-> <<>>]

\* the outcome of a request that returns stored rows
Found(db, rows) ==
    [code |-> 200, db |-> db, mails |-> <<>>, results |-> <<>>, body |-> rows]

\* the stored rows an outcome returns
BodyOf(out) == IF "body" \in DOMAIN out THEN out.body ELSE <<>>

RECURSIVE MailsOf(_)
MailsOf(calls) ==
    IF calls = <<>> THEN <<>> ELSE Head(calls).mails \o MailsOf(Tail(calls))

\* The tail of an endpoint that committed db and then made the notification
\* calls: their results are ignored and the task is returned, unless a call
\* raised, which `except Exception` turns into a 500.
Notified(db, calls) ==
    [code |-> IF \E k \in 1..Len(calls) : calls[k].raised THEN 500 ELSE 200,
     db |-> db, mails |-> MailsOf(calls),
     results |-> [k \in 1..Len(calls) |-> calls[k].result]]

\* the dependency accepting every token that verifies, whoever its subject is
Authenticated_any_subject(db, token, out) ==
    IF token = None THEN Http(401, db, <<>>) ELSE out

\* the CurrentUser dependency runs before the endpoint body
Authenticated(db, token, out) ==
    IF get_current_user(db.users, token) = None THEN Http(401, db, <<>>) ELSE out

\* ---- use cases ------------------------------------------------------------

\* create_task storing the task without looking the task list up
create_task_unchecked(db, task_list_id, title, description, priority, user_id) ==
    Http(201,
         [db EXCEPT !.tasks = create(db.tasks,
               [id |-> None, title |-> title, description |-> description,
                task_list_id |-> task_list_id, priority |-> priority,
                user_id |-> user_id, status |-> pending])],
         <<>>)

\* use_cases/task/create_task.py; NotFoundException is outcome 404
create_task(db, task_list_id, title, description, priority, user_id) ==
    IF task_list_id \notin DOMAIN db.lists
    THEN Http(404, db, <<>>)
    ELSE Http(201,
              [db EXCEPT !.tasks = create(db.tasks,
                    [id |-> None, title |-> title, description |-> description,
                     task_list_id |-> task_list_id, priority |-> priority,
                     user_id |-> user_id, status |-> pending])],
              <<>>)

\* use_cases/task/change_task_status.py; returning None is outcome 404
change_task_status(db, task_id, status) ==
    IF task_id \in DOMAIN db.tasks
    THEN Http(200, [db EXCEPT !.tasks[task_id].status = status], <<>>)
    ELSE Http(404, db, <<>>)

\* create_task_list raising the conflict only after it stored the list
create_task_list_stores_first(db, name) ==
    IF get_by_name(db.lists, name) # {}
    THEN Http(409, [db EXCEPT !.lists = create(db.lists,
                                               [id |-> None, name |-> name])],
              <<>>)
    ELSE Http(201, [db EXCEPT !.lists = create(db.lists,
                                               [id |-> None, name |-> name])],
              <<>>)

\* use_cases/task_list/create_task_list.py; ConflictException is outcome 409
create_task_list(db, name) ==
    IF get_by_name(db.lists, name) # {}
    THEN Http(409, db, <<>>)
    ELSE Http(201, [db EXCEPT !.lists = create(db.lists,
                                               [id |-> None, name |-> name])],
              <<>>)

\* ---- endpoints ------------------------------------------------------------

\* POST /tasks/ : TaskCreate carries no status, a status in the body is dropped
create_task_endpoint(db, body) ==
    create_task(db, body.task_list_id, body.title, body.description,
                body.priority, body.user_id)

\* PUT /tasks/{task_id}
update_task_endpoint(db, task_id, task_update) ==
    IF task_id \notin DOMAIN db.tasks
    THEN Http(404, db, <<>>)
    ELSE LET t0 == db.tasks[task_id]
             t1 == IF task_update.title # NoneStr
                   THEN [t0 EXCEPT !.title = task_update.title] ELSE t0
             t2 == IF task_update.description # NoneStr
                   THEN [t1 EXCEPT !.description = task_update.description]
                   ELSE t1
             t3 == IF task_update.priority # NoneStr
                   THEN [t2 EXCEPT !.priority = task_update.priority] ELSE t2
             t4 == IF task_update.user_id # None
                   THEN [t3 EXCEPT !.user_id = task_update.user_id] ELSE t3
         IN Http(200, [db EXCEPT !.tasks[task_id] = t4], <<>>)

\* the endpoint passing the new status to the notification as the old one
change_task_status_endpoint_new_as_old(db, task_id, status, fails) ==
    IF task_id \notin DOMAIN db.tasks
    THEN Http(404, db, <<>>)
    ELSE LET db2 == [db EXCEPT !.tasks[task_id].status = status]
             row == db2.tasks[task_id]
             assigned_user == IF row.user_id # None
                              THEN get_user_by_id(db2.users, row.user_id)
                              ELSE None
         IN Notified(db2,
                     IF assigned_user # None
                     THEN <<send_task_status_change_notification(
                                row, row.status, assigned_user, fails[1])>>
                     ELSE <<>>)

\* PATCH /tasks/{task_id}/status
change_task_status_endpoint(db, task_id, status, fails) ==
    IF task_id \notin DOMAIN db.tasks
    THEN Http(404, db, <<>>)
    ELSE LET old_status == db.tasks[task_id].status
             db2 == [db EXCEPT !.tasks[task_id].status = status]
             row == db2.tasks[task_id]
             assigned_user == IF row.user_id # None
                              THEN get_user_by_id(db2.users, row.user_id)
                              ELSE None
         IN Notified(db2,
                     IF assigned_user # None
                     THEN <<send_task_status_change_notification(
                                row, old_status, assigned_user, fails[1])>>
                     ELSE <<>>)

\* the endpoint telling the previous user even when it is the new user
assign_task_endpoint_always_tells_previous(db, task_id, user_id, fails) ==
    IF task_id \notin DOMAIN db.tasks
    THEN Http(404, db, <<>>)
    ELSE IF get_user_by_id(db.users, user_id) = None
    THEN Http(500, db, <<>>)
    ELSE LET previous_user_id == db.tasks[task_id].user_id
             db2 == [db EXCEPT !.tasks[task_id].user_id = user_id]
             row == db2.tasks[task_id]
             previous_user == IF previous_user_id # None
                              THEN get_user_by_id(db2.users, previous_user_id)
                              ELSE None
         IN Notified(db2,
                     <<send_task_assignment_notification(row, user_id, fails[1])>>
                     \o (IF previous_user # None
                         THEN <<send_task_unassignment_notification(
                                    row, previous_user, fails[2])>>
                         ELSE <<>>))

\* PATCH /tasks/{task_id}/assign. The HTTPException(404) raised for a missing
\* user is raised inside the try block, caught by `except Exception` and
\* re-raised as 500.
assign_task_endpoint(db, task_id, user_id, fails) ==
    IF task_id \notin DOMAIN db.tasks
    THEN Http(404, db, <<>>)
    ELSE IF get_user_by_id(db.users, user_id) = None
    THEN Http(500, db, <<>>)
    ELSE LET previous_user_id == db.tasks[task_id].user_id
             db2 == [db EXCEPT !.tasks[task_id].user_id = user_id]
             row == db2.tasks[task_id]
             previous_user == IF previous_user_id # None
                                 /\ previous_user_id # user_id
                              THEN get_user_by_id(db2.users, previous_user_id)
                              ELSE None
         IN Notified(db2,
                     <<send_task_assignment_notification(row, user_id, fails[1])>>
                     \o (IF previous_user # None
                         THEN <<send_task_unassignment_notification(
                                    row, previous_user, fails[2])>>
                         ELSE <<>>))

\* the endpoint looking the user up only after it cleared the assignment
unassign_task_endpoint_late_lookup(db, task_id, fails) ==
    IF task_id \notin DOMAIN db.tasks
    THEN Http(404, db, <<>>)
    ELSE LET db2 == [db EXCEPT !.tasks[task_id].user_id = None]
             row == db2.tasks[task_id]
             unassigned_user == IF row.user_id # None
                                THEN get_user_by_id(db.users, row.user_id)
                                ELSE None
         IN Notified(db2,
                     IF unassigned_user # None
                     THEN <<send_task_unassignment_notification(
                                row, unassigned_user, fails[1])>>
                     ELSE <<>>)

\* PATCH /tasks/{task_id}/unassign
unassign_task_endpoint(db, task_id, fails) ==
    IF task_id \notin DOMAIN db.tasks
    THEN Http(404, db, <<>>)
    ELSE LET unassigned_user == IF db.tasks[task_id].user_id # None
                                THEN get_user_by_id(db.users,
                                                    db.tasks[task_id].user_id)
                                ELSE None
             db2 == [db EXCEPT !.tasks[task_id].user_id = None]
             row == db2.tasks[task_id]
         IN Notified(db2,
                     IF unassigned_user # None
                     THEN <<send_task_unassignment_notification(
                                row, unassigned_user, fails[1])>>
                     ELSE <<>>)

\* DELETE /tasks/{task_id}
delete_task_endpoint(db, task_id) ==
    IF task_id \notin DOMAIN db.tasks
    THEN Http(404, db, <<>>)
    ELSE Http(204,
              [db EXCEPT !.tasks = [i \in DOMAIN db.tasks \ {task_id} |->
                                        db.tasks[i]]],
              <<>>)

\* POST /task-lists/
create_task_list_endpoint(db, name) == create_task_list(db, name)

\* POST /auth/register; the e-mail is that of a stored user (400) or the
\* e-mail of the next user
register_user(db, email) ==
    IF get_user_by_email(db.users, email) # None
    THEN Http(400, db, <<>>)
    ELSE Http(201, [db EXCEPT !.users = db.users \cup {email}], <<>>)

\* ---- the request path as a state machine ------------------------------------

NoRow == [id |-> None]
RowOf(table, id) == IF id \in DOMAIN table THEN table[id] ELSE NoRow

\* A request is handled: the database and the e-mails are what it leaves, and
\* the request is recorded with the addressed row as it was before.
Handle(op, task_id, arg, out) ==
    /\ dbTasks' = out.db.tasks
    /\ dbUsers' = out.db.users
    /\ dbLists' = out.db.lists
    /\ notifs' = out.mails
    /\ resp' = [op |-> op, code |-> out.code, task_id |-> task_id, arg |-> arg,
                before |-> RowOf(dbTasks, task_id), results |-> out.results,
                body |-> BodyOf(out)]
    /\ UNCHANGED <<clock, task, last, prevOp, ret, reqs>>

\* Title, description and priority are opaque to the request path: the
\* requests of the model all carry the same title, no description and
\* priority high.
ApiTitles == {"Fix bug"}
ApiDescriptions == {NoneStr}
ApiPriorities == {high}
\* a request comes without a (verifying) token, or with the token of the
\* first user to register, who may not be registered yet
Tokens == {None, 1}
\* the status a creation request may carry in its body besides the fields of
\* TaskCreate
ExtraStatus == {NoneStr, completed}
\* the bodies of PUT /tasks/{task_id}: no field, or one field, set
TaskUpdates ==
    LET none == [title |-> NoneStr, description |-> NoneStr,
                 priority |-> NoneStr, user_id |-> None]
    IN {none}
       \cup {[none EXCEPT !.title = t] : t \in ApiTitles}
       \cup {[none EXCEPT !.priority = p] : p \in ApiPriorities}
       \cup {[none EXCEPT !.user_id = u] : u \in UserIds}

\* which of the (at most two) notification operations a request calls fail
\* internally
Failures == [1..2 -> BOOLEAN]
\* the same for a request that calls at most one
OneFailure == {f \in Failures : ~f[2]}
NoFailure == [k \in 1..2 |-> FALSE]

RegisterUser ==
    \E email \in UserIds :
        /\ email <= Cardinality(dbUsers) + 1
        /\ Handle("register_user", None, email, register_user(Db, email))

CreateTaskList ==
    \E token \in Tokens, name \in ListNames :
        /\ Handle("create_task_list_endpoint", None, name,
                  Authenticated(Db, token, create_task_list_endpoint(Db, name)))

CreateTask ==
    \E token \in Tokens, title \in ApiTitles, description \in ApiDescriptions,
       priority \in ApiPriorities, task_list_id \in ListIds,
       user_id \in {None} \cup UserIds, status \in ExtraStatus :
        LET body == [title |-> title, description |-> description,
                     priority |-> priority, task_list_id |-> task_list_id,
                     user_id |-> user_id, status |-> status]
        IN /\ NextId(dbTasks) <= MaxTasks
           /\ Handle("create_task_endpoint", NextId(dbTasks), body,
                     Authenticated(Db, token, create_task_endpoint(Db, body)))

UpdateTask ==
    \E token \in Tokens, task_id \in TaskIds, task_update \in TaskUpdates :
        Handle("update_task_endpoint", task_id, task_update,
               Authenticated(Db, token,
                             update_task_endpoint(Db, task_id, task_update)))

ChangeTaskStatus ==
    \E token \in Tokens, task_id \in TaskIds, status \in TaskStatus,
       fails \in OneFailure :
        Handle("change_task_status_endpoint", task_id, status,
               Authenticated(Db, token,
                             change_task_status_endpoint(Db, task_id, status,
                                                         fails)))

ChangeTaskStatusUseCase ==
    \E task_id \in TaskIds, status \in TaskStatus :
        Handle("change_task_status", task_id, status,
               change_task_status(Db, task_id, status))

AssignTask ==
    \E token \in Tokens, task_id \in TaskIds, user_id \in UserIds,
       fails \in Failures :
        Handle("assign_task_endpoint", task_id, user_id,
               Authenticated(Db, token,
                             assign_task_endpoint(Db, task_id, user_id, fails)))

UnassignTask ==
    \E token \in Tokens, task_id \in TaskIds, fails \in OneFailure :
        Handle("unassign_task_endpoint", task_id, None,
               Authenticated(Db, token,
                             unassign_task_endpoint(Db, task_id, fails)))

DeleteTask ==
    \E token \in Tokens, task_id \in TaskIds :
        Handle("delete_task_endpoint", task_id, None,
               Authenticated(Db, token, delete_task_endpoint(Db, task_id)))

Next ==
    \/ RegisterUser
    \/ CreateTaskList
    \/ CreateTask
    \/ UpdateTask
    \/ ChangeTaskStatus
    \/ ChangeTaskStatusUseCase
    \/ AssignTask
    \/ UnassignTask
    \/ DeleteTask

Spec == InitApi /\ [][Next]_vars

(***************************************************************************)
(* Ownership of tasks by task lists: creation and deletion of task lists   *)
(* and tasks (specification SpecStore)                                     *)
(***************************************************************************)

\* stored task list ids range over 1..MaxLists
MaxLists == 2

\* the entity of the request-path specifications: no call is made on it
IdleEntity ==
    /\ clock = 1
    /\ task = post_init([title |-> "Fix bug", task_list_id |-> 1, id |-> None,
                         description |-> NoneStr, status |-> pending,
                         priority |-> medium, user_id |-> None,
                         created_at |-> None, updated_at |-> None], clock)
    /\ last = [op |-> "init",
               arg |-> [created_at |-> None, updated_at |-> None],
               now |-> clock, raised |-> FALSE, before |-> task]
    /\ prevOp = "none"

\* DELETE /task-lists/{task_list_id} leaving the tasks of the list behind
delete_task_list_endpoint_no_cascade(db, task_list_id) ==
    IF task_list_id \notin DOMAIN db.lists
    THEN Http(404, db, <<>>)
    ELSE Http(204,
              [db EXCEPT !.lists = [i \in DOMAIN db.lists \ {task_list_id} |->
                                        db.lists[i]]],
              <<>>)

\* DELETE /task-lists/{task_list_id}; db.delete(task_list) deletes the tasks
\* of relationship TaskList.tasks with it (cascade="all, delete-orphan")
delete_task_list_endpoint(db, task_list_id) ==
    IF task_list_id \notin DOMAIN db.lists
    THEN Http(404, db, <<>>)
    ELSE LET kept == {i \in DOMAIN db.tasks :
                        db.tasks[i].task_list_id # task_list_id}
         IN Http(204,
                 [db EXCEPT !.lists = [i \in DOMAIN db.lists \ {task_list_id}
                                          |-> db.lists[i]],
                            !.tasks = [i \in kept |-> db.tasks[i]]],
                 <<>>)

StoreListNames == {"Sprint 1", "Sprint 2"}
StoreListIds == 1..MaxLists
\* the store of this specification holds one task more than MaxTasks
StoreTaskIds == 1..(MaxTasks + 1)

\* The database after the first user registered.
InitStore ==
    /\ IdleEntity
    /\ dbUsers = {1}
    /\ dbTasks = <<>>
    /\ dbLists = <<>>
    /\ NoRequest

StoreCreateTaskList ==
    \E token \in Tokens, name \in StoreListNames :
        /\ NextId(dbLists) <= MaxLists
        /\ Handle("create_task_list_endpoint", None, name,
                  Authenticated(Db, token, create_task_list_endpoint(Db, name)))

StoreCreateTask ==
    \E token \in Tokens, task_list_id \in StoreListIds,
       priority \in ApiPriorities :
        LET body == [title |-> "Fix bug", description |-> NoneStr,
                     priority |-> priority, task_list_id |-> task_list_id,
                     user_id |-> None, status |-> NoneStr]
        IN /\ NextId(dbTasks) \in StoreTaskIds
           /\ Handle("create_task_endpoint", NextId(dbTasks), body,
                     Authenticated(Db, token, create_task_endpoint(Db, body)))

StoreDeleteTask ==
    \E token \in Tokens, task_id \in StoreTaskIds :
        Handle("delete_task_endpoint", task_id, None,
               Authenticated(Db, token, delete_task_endpoint(Db, task_id)))

\* the request is recorded with one of the tasks the addressed list owns
StoreDeleteTaskList ==
    \E token \in Tokens, task_list_id \in StoreListIds :
        LET owned == {i \in DOMAIN dbTasks :
                        dbTasks[i].task_list_id = task_list_id}
            task_id == IF owned = {} THEN None ELSE CHOOSE i \in owned : TRUE
        IN Handle("delete_task_list_endpoint", task_id, task_list_id,
                  Authenticated(Db, token,
                                delete_task_list_endpoint(Db, task_list_id)))

NextStore ==
    \/ StoreCreateTaskList
    \/ StoreCreateTask
    \/ StoreDeleteTask
    \/ StoreDeleteTaskList

SpecStore == InitStore /\ [][NextStore]_vars

(***************************************************************************)
(* Renaming of task lists: PUT /task-lists/{task_list_id} and use case     *)
(* update_task_list (specification SpecRename)                             *)
(***************************************************************************)

\* Query.first() over the rows a filter selects: the stored row of least id,
\* None when the filter selects nothing
first(ids) ==
    IF ids = {} THEN None ELSE CHOOSE i \in ids : \A j \in ids : i <= j

\* PUT /task-lists/{task_list_id}; a body without a name changes nothing
update_task_list_endpoint(db, task_list_id, task_list_update) ==
    IF task_list_id \notin DOMAIN db.lists
    THEN Http(404, db, <<>>)
    ELSE IF task_list_update.name = NoneStr
    THEN Http(200, db, <<>>)
    ELSE LET existing == first(get_by_name(db.lists, task_list_update.name))
         IN IF existing # None /\ existing # task_list_id
            THEN Http(409, db, <<>>)
            ELSE Http(200,
                      [db EXCEPT !.lists[task_list_id].name =
                                     task_list_update.name],
                      <<>>)

\* use_cases/task_list/update_task_list.py. The class it queries is the
\* TaskList of app.domain.models.task_list, which is no mapped class:
\* `queryable` says whether the session accepts it as the entity of a query;
\* if not, db.query raises (outcome 500). Returning None is outcome 404.
update_task_list(db, task_list_id, name, queryable) ==
    IF ~queryable
    THEN Http(500, db, <<>>)
    ELSE IF task_list_id \notin DOMAIN db.lists
    THEN Http(404, db, <<>>)
    ELSE Http(200, [db EXCEPT !.lists[task_list_id].name = name], <<>>)

\* what a rename request is recorded with: the new name, the addressed list
\* as it was, and the stored lists that held the new name
Rename(name, task_list_id) ==
    [name |-> name, task_list_id |-> task_list_id,
     before |-> RowOf(dbLists, task_list_id),
     holders |-> get_by_name(dbLists, name)]

UpdateTaskList ==
    \E token \in Tokens, task_list_id \in StoreListIds,
       name \in StoreListNames \cup {NoneStr} :
        Handle("update_task_list_endpoint", None, Rename(name, task_list_id),
               Authenticated(Db, token,
                             update_task_list_endpoint(Db, task_list_id,
                                                       [name |-> name])))

UpdateTaskListUseCase ==
    \E task_list_id \in StoreListIds, name \in StoreListNames,
       queryable \in BOOLEAN :
        Handle("update_task_list", None, Rename(name, task_list_id),
               update_task_list(Db, task_list_id, name, queryable))

NextRename ==
    \/ StoreCreateTaskList
    \/ UpdateTaskList
    \/ UpdateTaskListUseCase

SpecRename == InitStore /\ [][NextRename]_vars

(***************************************************************************)
(* Listing: app/use_cases/task/list_tasks.py over TaskRepository           *)
(* (specification SpecList)                                                *)
(***************************************************************************)

\* the default of the parameter `limit` of the repository queries
DefaultLimit == 100
\* a stored table of the model holds at most MaxRows freely chosen rows
MaxRows == 2

Min(a, b) == IF a <= b THEN a ELSE b

\* the rows of a table in the order the store returns them (by id)
InIdOrder(table, ids) ==
    LET byId == SelectSeq([i \in 1..NextId(table) |-> i], LAMBDA i : i \in ids)
    IN [k \in 1..Len(byId) |-> table[byId[k]]]

\* query.offset(skip).limit(limit).all()
offset_limit(rows, skip, limit) ==
    SubSeq(rows, skip + 1, Min(Len(rows), skip + limit))

\* TaskRepository.get_by_task_list_id
get_by_task_list_id(tasks, task_list_id, skip, limit) ==
    offset_limit(InIdOrder(tasks, {i \in DOMAIN tasks :
                                     tasks[i].task_list_id = task_list_id}),
                 skip, limit)

\* get_tasks_with_filters dropping the user_id filter
get_tasks_with_filters_no_user(tasks, task_list_id, user_id, status, priority, skip, limit) ==
    offset_limit(InIdOrder(tasks, {i \in DOMAIN tasks :
        /\ task_list_id # None => tasks[i].task_list_id = task_list_id
        /\ status # NoneStr => tasks[i].status = status
        /\ priority # NoneStr => tasks[i].priority = priority}),
                 skip, limit)

\* TaskRepository.get_tasks_with_filters
get_tasks_with_filters(tasks, task_list_id, user_id, status, priority, skip, limit) ==
    offset_limit(InIdOrder(tasks, {i \in DOMAIN tasks :
        /\ task_list_id # None => tasks[i].task_list_id = task_list_id
        /\ user_id # None => tasks[i].user_id = user_id
        /\ status # NoneStr => tasks[i].status = status
        /\ priority # NoneStr => tasks[i].priority = priority}),
                 skip, limit)

\* round(completed / total * 100, 2), in hundredths of a percent: the nearest
\* integer to 10000 * completed / total, a tie going to the even one
round2(completed_, total) ==
    LET n == 10000 * completed_
        q == n \div total
        r == n % total
    IN IF 2 * r < total THEN q
       ELSE IF 2 * r > total THEN q + 1
       ELSE IF q % 2 = 0 THEN q ELSE q + 1

\* list_tasks checking the task list only after it ran the task queries
list_tasks_checks_last(db, task_list_id, status, priority, user_id, skip, limit) ==
    LET tasks == get_tasks_with_filters(db.tasks, task_list_id, user_id,
                                        status, priority, skip, limit)
        all_tasks == get_by_task_list_id(db.tasks, task_list_id, 0, DefaultLimit)
        total == Len(all_tasks)
        completed_ == Len(SelectSeq(all_tasks, LAMBDA t : t.status = completed))
        queries == <<"TaskRepository.get_tasks_with_filters",
                     "TaskRepository.get_by_task_list_id",
                     "TaskListRepository.get_by_id">>
    IN IF task_list_id \notin DOMAIN db.lists
       THEN [raised |-> TRUE, queries |-> queries]
       ELSE [raised |-> FALSE, queries |-> queries,
             result |-> [tasks |-> tasks, total |-> total,
                         completed |-> completed_,
                         percent_complete |->
                             IF total # 0 THEN round2(completed_, total) ELSE 0,
                         pagination |-> [skip |-> skip, limit |-> limit,
                                         returned |-> Len(tasks)]]]

\* use_cases/task/list_tasks.py list_tasks: the outcome and the repository
\* queries it executed, in order; raised is NotFoundException
list_tasks(db, task_list_id, status, priority, user_id, skip, limit) ==
    IF task_list_id \notin DOMAIN db.lists
    THEN [raised |-> TRUE, queries |-> <<"TaskListRepository.get_by_id">>]
    ELSE LET tasks == get_tasks_with_filters(db.tasks, task_list_id, user_id,
                                             status, priority, skip, limit)
             all_tasks == get_by_task_list_id(db.tasks, task_list_id, 0,
                                              DefaultLimit)
             total == Len(all_tasks)
             completed_ == Len(SelectSeq(all_tasks,
                                         LAMBDA t : t.status = completed))
         IN [raised |-> FALSE,
             queries |-> <<"TaskListRepository.get_by_id",
                           "TaskRepository.get_tasks_with_filters",
                           "TaskRepository.get_by_task_list_id">>,
             result |-> [tasks |-> tasks, total |-> total,
                         completed |-> completed_,
                         percent_complete |->
                             IF total # 0 THEN round2(completed_, total) ELSE 0,
                         pagination |-> [skip |-> skip, limit |-> limit,
                                         returned |-> Len(tasks)]]]

\* use_cases/task/list_tasks.py list_all_tasks
list_all_tasks(db, status, priority, user_id, skip, limit) ==
    [raised |-> FALSE,
     queries |-> <<"TaskRepository.get_tasks_with_filters">>,
     result |-> get_tasks_with_filters(db.tasks, None, user_id, status,
                                       priority, skip, limit)]

\* ---- the stored tables the listings are applied to ---------------------------

StoredRow(id, kind) ==
    [id |-> id, title |-> "Fix bug", description |-> NoneStr,
     task_list_id |-> kind.task_list_id, priority |-> kind.priority,
     user_id |-> kind.user_id, status |-> kind.status]

\* what a freely chosen row is: any pending or completed task of list 1, of
\* either priority, assigned to user 1 or to nobody, or the one task of list 2
RowKinds ==
    [status : {pending, completed}, priority : {medium, high},
     user_id : {None, 1}, task_list_id : {1}]
    \cup {[status |-> completed, priority |-> high, user_id |-> 1,
           task_list_id |-> 2]}

FreeTables ==
    UNION {{[i \in 1..n |-> StoredRow(i, f[i])] : f \in [1..n -> RowKinds]} :
           n \in 0..MaxRows}

\* four tasks of one list, two of them completed and two pending
ExampleTable ==
    [i \in 1..4 |->
        StoredRow(i, [status |-> IF i <= 2 THEN completed ELSE pending,
                      priority |-> IF i = 2 THEN medium ELSE high,
                      user_id |-> None, task_list_id |-> 1])]

\* one list holding as many tasks as the default limit, or one more
BulkTables ==
    {[i \in 1..n |-> StoredRow(i, [status |-> s, priority |-> medium,
                                   user_id |-> None, task_list_id |-> 1])] :
        n \in {DefaultLimit, DefaultLimit + 1}, s \in {completed}}

ListTables == FreeTables \cup {ExampleTable} \cup BulkTables

\* the arguments of the listings
StatusFilters == {NoneStr, pending}
PriorityFilters == {NoneStr, high}
UserFilters == {None, 1}
Skips == {0, 1}
Limits == {1, DefaultLimit}

\* A database holding two task lists and any of the tables.
InitList ==
    /\ IdleEntity
    /\ dbUsers = UserIds
    /\ dbLists = [i \in 1..2 |->
                     [id |-> i, name |-> IF i = 1 THEN "Sprint 1" ELSE "Sprint 2"]]
    /\ dbTasks \in ListTables
    /\ NoRequest

\* a direct call is made on a use case that only reads
Return(op, args, out) ==
    /\ ret' = [op |-> op, args |-> args, out |-> out]
    /\ UNCHANGED <<clock, task, last, prevOp, dbTasks, dbUsers, dbLists, resp,
                   notifs, reqs>>

\* list_tasks for an existing list (1) or a missing one
ListTasks ==
    \E task_list_id \in {1, NextId(dbLists)}, status \in StatusFilters,
       priority \in PriorityFilters, user_id \in UserFilters,
       skip \in Skips, limit \in Limits :
        Return("list_tasks",
               [task_list_id |-> task_list_id, status |-> status,
                priority |-> priority, user_id |-> user_id, skip |-> skip,
                limit |-> limit],
               list_tasks(Db, task_list_id, status, priority, user_id, skip,
                          limit))

ListAllTasks ==
    \E status \in StatusFilters, priority \in PriorityFilters,
       user_id \in UserFilters, skip \in Skips, limit \in Limits :
        Return("list_all_tasks",
               [task_list_id |-> None, status |-> status,
                priority |-> priority, user_id |-> user_id, skip |-> skip,
                limit |-> limit],
               list_all_tasks(Db, status, priority, user_id, skip, limit))

NextList ==
    \/ ListTasks
    \/ ListAllTasks

SpecList == InitList /\ [][NextList]_vars

(***************************************************************************)
(* Value objects: app/domain/value_objects.py (specification SpecValue)    *)
(*                                                                         *)
(* A string is a sequence of characters. pydantic validates the Field      *)
(* constraints of `value` (length, pattern) on the input as given and runs *)
(* the field_validator (mode "after") on the string that passed them.      *)
(***************************************************************************)

\* Field(max_length=...) of TaskTitle, TaskListName and UserEmail
TitleMaxLength == 200
NameMaxLength == 100
EmailMaxLength == 100
\* the short input strings have at most MaxLen characters
MaxLen == 5

Chars == {" ", "a", "A", "@", "."}

is_space(c) == c = " "

\* str.lower
lower(v) == [k \in 1..Len(v) |-> IF v[k] = "A" THEN "a" ELSE v[k]]

RECURSIVE lstrip(_)
lstrip(v) == IF v # <<>> /\ is_space(Head(v)) THEN lstrip(Tail(v)) ELSE v

RECURSIVE rstrip(_)
rstrip(v) ==
    IF v # <<>> /\ is_space(v[Len(v)])
    THEN rstrip(SubSeq(v, 1, Len(v) - 1)) ELSE v

\* str.strip
strip(v) == rstrip(lstrip(v))

\* the pattern ^[^@]+@[^@]+\.[^@]+$ : one "@", something before it, and after
\* it a "." with something on both sides
matches_pattern(v) ==
    LET ats == {k \in 1..Len(v) : v[k] = "@"}
    IN /\ Cardinality(ats) = 1
       /\ LET at == CHOOSE k \in ats : TRUE
          IN /\ at >= 2
             /\ \E dot \in (at + 2)..(Len(v) - 1) : v[dot] = "."

\* the outcome of a construction: ValidationError, or the stored value
Invalid == [raised |-> TRUE]
Valid(value) == [raised |-> FALSE, value |-> value]

\* TaskListName(value=v): Field(min_length=1, max_length=100), validate_name
TaskListName(v) ==
    IF Len(v) < 1 \/ Len(v) > NameMaxLength THEN Invalid
    ELSE IF strip(v) = <<>> THEN Invalid
    ELSE Valid(strip(v))

\* TaskTitle(value=v): Field(min_length=1, max_length=200), validate_title
TaskTitle(v) ==
    IF Len(v) < 1 \/ Len(v) > TitleMaxLength THEN Invalid
    ELSE IF strip(v) = <<>> THEN Invalid
    ELSE Valid(strip(v))

\* UserEmail(value=v): Field(max_length=100, pattern=...), validate_email
UserEmail(v) ==
    IF Len(v) > EmailMaxLength \/ ~matches_pattern(v) THEN Invalid
    ELSE Valid(strip(lower(v)))

\* ---- the inputs ---------------------------------------------------------------

Spaces(n) == [k \in 1..n |-> " "]
Letters(n) == [k \in 1..n |-> "a"]

ShortInputs == UNION {[1..n -> Chars] : n \in 0..MaxLen}

\* inputs around the maximum lengths: letters with or without a space before
\* and after them, and addresses of 100 and 101 characters
LongInputs ==
    {Spaces(l) \o Letters(n) \o Spaces(t) :
        l \in 0..1, t \in 0..1,
        n \in {m + d : m \in {NameMaxLength, TitleMaxLength}, d \in {-1, 0, 1}}}
    \cup {Letters(EmailMaxLength - 4 + d) \o <<"@", "a", ".", "b">> : d \in {0, 1}}

Inputs == ShortInputs \cup LongInputs

\* A string is at hand; no value object was built from it yet.
InitValue ==
    /\ IdleEntity
    /\ dbTasks = <<>>
    /\ dbUsers = {}
    /\ dbLists = <<>>
    /\ resp = NoResp
    /\ notifs = <<>>
    /\ reqs = NoReqs
    /\ \E v \in Inputs : ret = [op |-> "none", args |-> v]

\* a value object is built from the string at hand
Construct(cls, out) ==
    /\ ret' = [op |-> cls, args |-> ret.args, out |-> out]
    /\ UNCHANGED <<clock, task, last, prevOp, dbTasks, dbUsers, dbLists, resp,
                   notifs, reqs>>

NewTaskTitle == Construct("TaskTitle", TaskTitle(ret.args))
NewTaskListName == Construct("TaskListName", TaskListName(ret.args))
NewUserEmail == Construct("UserEmail", UserEmail(ret.args))

NextValue ==
    \/ NewTaskTitle
    \/ NewTaskListName
    \/ NewUserEmail

SpecValue == InitValue /\ [][NextValue]_vars

(***************************************************************************)
(* Authentication of the task and task-list endpoints:                     *)
(* app/api/dependencies/auth.py, app/services/auth.py                      *)
(* (specification SpecAuth)                                                *)
(***************************************************************************)

\* what verify_token returns for a token jwt.decode refuses
NoPayload == [refused |-> TRUE]

\* AuthService.verify_token: jwt.decode checks the signature and the expiry
verify_token(token) ==
    IF token.signed /\ ~token.expired THEN token.payload ELSE NoPayload

\* AuthService.get_user_from_token: payload.get("sub")
get_user_from_token(token) ==
    LET payload == verify_token(token)
    IN IF payload = NoPayload THEN None ELSE payload.sub

\* oauth2_scheme, then the first step of get_current_user: the e-mail the
\* Authorization header of a request yields, None without a header
bearer(header) ==
    IF header = <<>> THEN None ELSE get_user_from_token(header[1])

\* GET /tasks/{task_id}
get_task_endpoint(db, task_id) ==
    IF task_id \notin DOMAIN db.tasks
    THEN Http(404, db, <<>>)
    ELSE Found(db, <<db.tasks[task_id]>>)

\* GET /tasks/
list_tasks_endpoint(db, task_list_id, status, priority, user_id, skip, limit) ==
    IF task_list_id # None
    THEN LET out == list_tasks(db, task_list_id, status, priority, user_id,
                               skip, limit)
         IN IF out.raised THEN Http(404, db, <<>>)
            ELSE Found(db, out.result.tasks)
    ELSE Found(db, list_all_tasks(db, status, priority, user_id, skip,
                                  limit).result)

\* GET /task-lists/{task_list_id}
get_task_list_endpoint(db, task_list_id) ==
    IF task_list_id \notin DOMAIN db.lists
    THEN Http(404, db, <<>>)
    ELSE Found(db, <<db.lists[task_list_id]>>)

\* GET /task-lists/ ; BaseRepository.get_all
list_task_lists_endpoint(db, skip, limit) ==
    Found(db, offset_limit(InIdOrder(db.lists, DOMAIN db.lists), skip, limit))

\* A token is signed with the key of the application or not, expired or not,
\* and carries the e-mail of user 1, of user 2, or no subject. The headers of
\* the model: none, the token of user 1, and that token with one thing wrong.
GoodToken == [signed |-> TRUE, expired |-> FALSE, payload |-> [sub |-> 1]]

AuthHeaders ==
    {<<>>, <<GoodToken>>,
     <<[GoodToken EXCEPT !.signed = FALSE]>>,
     <<[GoodToken EXCEPT !.expired = TRUE]>>,
     <<[GoodToken EXCEPT !.payload = [sub |-> None]]>>,
     <<[GoodToken EXCEPT !.payload = [sub |-> 2]]>>}

\* A request to a protected endpoint: recorded with its header and what it
\* addresses.
Protected(op, header, task_id, arg, out) ==
    Handle(op, task_id, [header |-> header, arg |-> arg],
           Authenticated(Db, bearer(header), out))

AuthCreateTaskList ==
    \E header \in AuthHeaders, name \in StoreListNames :
        /\ NextId(dbLists) <= MaxLists
        /\ Protected("create_task_list_endpoint", header, None, name,
                     create_task_list_endpoint(Db, name))

AuthGetTaskList ==
    \E header \in AuthHeaders, task_list_id \in StoreListIds :
        Protected("get_task_list_endpoint", header, None, task_list_id,
                  get_task_list_endpoint(Db, task_list_id))

AuthListTaskLists ==
    \E header \in AuthHeaders :
        Protected("list_task_lists_endpoint", header, None, None,
                  list_task_lists_endpoint(Db, 0, DefaultLimit))

AuthUpdateTaskList ==
    \E header \in AuthHeaders, task_list_id \in StoreListIds,
       name \in StoreListNames :
        Protected("update_task_list_endpoint", header, None, task_list_id,
                  update_task_list_endpoint(Db, task_list_id, [name |-> name]))

AuthDeleteTaskList ==
    \E header \in AuthHeaders, task_list_id \in StoreListIds :
        Protected("delete_task_list_endpoint", header, None, task_list_id,
                  delete_task_list_endpoint(Db, task_list_id))

AuthCreateTask ==
    \E header \in AuthHeaders :
        LET body == [title |-> "Fix bug", description |-> NoneStr,
                     priority |-> medium, task_list_id |-> 1,
                     user_id |-> None, status |-> NoneStr]
        IN /\ NextId(dbTasks) <= MaxTasks
           /\ Protected("create_task_endpoint", header, NextId(dbTasks), body,
                        create_task_endpoint(Db, body))

AuthGetTask ==
    \E header \in AuthHeaders, task_id \in TaskIds :
        Protected("get_task_endpoint", header, task_id, None,
                  get_task_endpoint(Db, task_id))

AuthListTasks ==
    \E header \in AuthHeaders, task_list_id \in {None, 1} :
        Protected("list_tasks_endpoint", header, None, task_list_id,
                  list_tasks_endpoint(Db, task_list_id, NoneStr, NoneStr, None,
                                      0, DefaultLimit))

AuthUpdateTask ==
    \E header \in AuthHeaders, task_id \in TaskIds :
        LET task_update == [title |-> NoneStr, description |-> NoneStr,
                            priority |-> NoneStr, user_id |-> 1]
        IN Protected("update_task_endpoint", header, task_id, task_update,
                     update_task_endpoint(Db, task_id, task_update))

AuthChangeTaskStatus ==
    \E header \in AuthHeaders, task_id \in TaskIds :
        Protected("change_task_status_endpoint", header, task_id, completed,
                  change_task_status_endpoint(Db, task_id, completed,
                                              NoFailure))

AuthAssignTask ==
    \E header \in AuthHeaders, task_id \in TaskIds :
        Protected("assign_task_endpoint", header, task_id, 1,
                  assign_task_endpoint(Db, task_id, 1, NoFailure))

AuthUnassignTask ==
    \E header \in AuthHeaders, task_id \in TaskIds :
        Protected("unassign_task_endpoint", header, task_id, None,
                  unassign_task_endpoint(Db, task_id, NoFailure))

AuthDeleteTask ==
    \E header \in AuthHeaders, task_id \in TaskIds :
        Protected("delete_task_endpoint", header, task_id, None,
                  delete_task_endpoint(Db, task_id))

NextAuth ==
    \/ AuthCreateTaskList
    \/ AuthGetTaskList
    \/ AuthListTaskLists
    \/ AuthUpdateTaskList
    \/ AuthDeleteTaskList
    \/ AuthCreateTask
    \/ AuthGetTask
    \/ AuthListTasks
    \/ AuthUpdateTask
    \/ AuthChangeTaskStatus
    \/ AuthAssignTask
    \/ AuthUnassignTask
    \/ AuthDeleteTask

SpecAuth == InitStore /\ [][NextAuth]_vars

(***************************************************************************)
(* Requests in flight together (specification SpecRace)                    *)
(*                                                                         *)
(* Each worker handles one request of an authenticated user, statement by  *)
(* statement, on a session of its own; the statements of two requests      *)
(* interleave. A statement that reads or writes the database is one step;  *)
(* the local statements that follow it belong to the same step.            *)
(***************************************************************************)

Workers == {1, 2}

\* the status-change endpoint issuing its notification before it commits
statements_notify_first(op) ==
    CASE op = "create_task_list_endpoint" -> <<"get_by_name", "create">>
      [] op = "change_task_status_endpoint" ->
            <<"get_task", "notify_status", "commit", "refresh">>
      [] op = "assign_task_endpoint" ->
            <<"get_task", "get_user", "commit", "refresh",
              "notify_assignment", "notify_previous">>
      [] op = "unassign_task_endpoint" ->
            <<"get_task", "get_unassigned_user", "commit", "refresh",
              "notify_unassignment">>
      [] OTHER -> <<>>

\* the statements of an endpoint that touch the database or issue a
\* notification, in the order of the source
statements(op) ==
    CASE op = "create_task_list_endpoint" -> <<"get_by_name", "create">>
      [] op = "change_task_status_endpoint" ->
            <<"get_task", "commit", "refresh", "notify_status">>
      [] op = "assign_task_endpoint" ->
            <<"get_task", "get_user", "commit", "refresh",
              "notify_assignment", "notify_previous">>
      [] op = "unassign_task_endpoint" ->
            <<"get_task", "get_unassigned_user", "commit", "refresh",
              "notify_unassignment">>
      [] OTHER -> <<>>

\* the status code of an endpoint that returns
success(op) == IF op = "create_task_list_endpoint" THEN 201 ELSE 200

\* a worker before its request arrives
Idle ==
    [op |-> "none",
     args |-> [name |-> NoneStr, task_id |-> None, status |-> NoneStr,
               user_id |-> None],
     at |-> 0, code |-> 0, trace |-> <<>>, existing |-> None,
     loaded |-> NoRow, row |-> NoRow, old_status |-> NoneStr,
     previous_user_id |-> None, user |-> None, commit_no |-> 0,
     mails |-> <<>>]

\* the statement the request of a worker is at, "none" when no request is in
\* flight
At(r) ==
    IF r.at = 0 \/ r.code # 0 THEN "none" ELSE statements(r.op)[r.at]

\* the statement was executed; the endpoint returns after its last statement
Executed(r, stmt) ==
    [r EXCEPT !.at = r.at + 1,
              !.trace = Append(r.trace, stmt),
              !.code = IF r.at = Len(statements(r.op)) THEN success(r.op)
                       ELSE 0]

\* the statement raised: the endpoint ends with the status code
Ended(r, stmt, code) ==
    [r EXCEPT !.trace = Append(r.trace, stmt), !.code = code]

\* ---- the requests a worker may get --------------------------------------------

\* task 1 is stored, task 2 is not; users 1 and 2 are stored, user 3 is not
RaceTaskIds == {1, 2}
RaceUserIds == {2, 3}

RaceRequests ==
    LET none == [op |-> "none", args |-> Idle.args]
    IN {[none EXCEPT !.op = "create_task_list_endpoint", !.args.name = n] :
           n \in StoreListNames}
       \cup {[none EXCEPT !.op = "change_task_status_endpoint",
                          !.args.task_id = t, !.args.status = st] :
                t \in RaceTaskIds, st \in TaskStatus}
       \cup {[none EXCEPT !.op = "assign_task_endpoint",
                          !.args.task_id = t, !.args.user_id = u] :
                t \in RaceTaskIds, u \in RaceUserIds}
       \cup {[none EXCEPT !.op = "unassign_task_endpoint",
                          !.args.task_id = t] : t \in RaceTaskIds}

\* The database after users 1 and 2 registered, list "Sprint 1" was created
\* and task 1 was created in it, with some status, assigned to user 1 or to
\* nobody.
InitRace ==
    /\ IdleEntity
    /\ dbUsers = {1, 2}
    /\ dbLists = [i \in {1} |-> [id |-> 1, name |-> "Sprint 1"]]
    /\ \E st \in TaskStatus, user_id \in {None, 1} :
          dbTasks = [i \in {1} |->
                        [id |-> 1, title |-> "Fix bug", description |-> NoneStr,
                         task_list_id |-> 1, priority |-> medium,
                         user_id |-> user_id, status |-> st]]
    /\ resp = NoResp
    /\ notifs = <<>>
    /\ ret = NoRet
    /\ reqs = [w \in Workers |-> Idle]

\* a step of worker w that leaves the database alone
Local(w, r) ==
    /\ reqs' = [reqs EXCEPT ![w] = r]
    /\ UNCHANGED <<clock, task, last, prevOp, dbTasks, dbUsers, dbLists, resp,
                   notifs, ret>>

\* a step of worker w that writes the tables
Write(w, r, tasks, lists) ==
    /\ reqs' = [reqs EXCEPT ![w] = r]
    /\ dbTasks' = tasks
    /\ dbLists' = lists
    /\ UNCHANGED <<clock, task, last, prevOp, dbUsers, resp, notifs, ret>>

\* a request arrives at an idle worker
Begin(w) ==
    /\ reqs[w].at = 0
    /\ \E request \in RaceRequests :
          Local(w, [Idle EXCEPT !.op = request.op, !.args = request.args,
                                !.at = 1])

\* ---- create_task_list ---------------------------------------------------------

\* existing = task_list_repo.get_by_name(name); if existing: raise
GetByName(w) ==
    LET r == reqs[w]
        existing == first(get_by_name(dbLists, r.args.name))
    IN /\ At(r) = "get_by_name"
       /\ Local(w, IF existing # None
                   THEN Ended([r EXCEPT !.existing = existing],
                              "get_by_name", 409)
                   ELSE Executed(r, "get_by_name"))

\* BaseRepository.create with a unique constraint on task_list.name
Create_unique(w) ==
    LET r == reqs[w]
    IN /\ At(r) = "create"
       /\ IF get_by_name(dbLists, r.args.name) # {}
          THEN Local(w, Ended(r, "create", 500))
          ELSE Write(w, Executed(r, "create"), dbTasks,
                     create(dbLists, [id |-> None, name |-> r.args.name]))

\* task_list_repo.create(TaskList(name=name)): add, commit, refresh
Create(w) ==
    LET r == reqs[w]
    IN /\ At(r) = "create"
       /\ Write(w, Executed(r, "create"), dbTasks,
                create(dbLists, [id |-> None, name |-> r.args.name]))

\* ---- the task endpoints -------------------------------------------------------

\* task = get_task(db, task_id), NotFoundException being 404; the status-change
\* endpoint goes on with old_status = task.status; task.status = new_status
GetTask(w) ==
    LET r == reqs[w]
        id == r.args.task_id
        found == [r EXCEPT !.loaded = dbTasks[id], !.row = dbTasks[id]]
    IN /\ At(r) = "get_task"
       /\ Local(w,
                IF id \notin DOMAIN dbTasks THEN Ended(r, "get_task", 404)
                ELSE IF r.op = "change_task_status_endpoint"
                THEN Executed([found EXCEPT
                                  !.old_status = dbTasks[id].status,
                                  !.row.status = r.args.status], "get_task")
                ELSE Executed(found, "get_task"))

\* assign: user = get_user_by_id(user_id), a missing user ending in 500;
\* previous_user_id = task.user_id; task.user_id = user_id
GetUser(w) ==
    LET r == reqs[w]
        user == get_user_by_id(dbUsers, r.args.user_id)
    IN /\ At(r) = "get_user"
       /\ Local(w,
                IF user = None THEN Ended(r, "get_user", 500)
                ELSE Executed([r EXCEPT !.user = user,
                                        !.previous_user_id = r.row.user_id,
                                        !.row.user_id = r.args.user_id],
                              "get_user"))

\* unassign: unassigned_user = get_user_by_id(task.user_id) if task.user_id;
\* task.user_id = None
GetUnassignedUser(w) ==
    LET r == reqs[w]
        user == IF r.row.user_id # None
                THEN get_user_by_id(dbUsers, r.row.user_id) ELSE None
    IN /\ At(r) = "get_unassigned_user"
       /\ Local(w, Executed([r EXCEPT !.user = user, !.row.user_id = None],
                            "get_unassigned_user"))

\* the columns of a request's task whose value differs from the loaded one
Dirty(r) == {c \in DOMAIN r.row : r.row[c] # r.loaded[c]}

\* what db.commit() stores: the flush updates the dirty columns of the row and
\* leaves its other columns as they are stored
Flushed(r, stored) ==
    [c \in DOMAIN stored |-> IF c \in Dirty(r) THEN r.row[c] ELSE stored[c]]

\* db.commit() refusing a row that changed since the request loaded it
Commit_versioned(w) ==
    LET r == reqs[w]
        id == r.args.task_id
        no == 1 + Cardinality({v \in Workers : reqs[v].commit_no > 0})
    IN /\ At(r) = "commit"
       /\ IF dbTasks[id] # r.loaded
          THEN Local(w, Ended(r, "commit_rejected", 500))
          ELSE Write(w, Executed([r EXCEPT !.commit_no = no], "commit"),
                     [dbTasks EXCEPT ![id] = Flushed(r, dbTasks[id])], dbLists)

\* db.commit(): it succeeds, or the store fails and `except Exception` ends
\* the request in 500 with nothing stored
Commit(w) ==
    LET r == reqs[w]
        id == r.args.task_id
        no == 1 + Cardinality({v \in Workers : reqs[v].commit_no > 0})
    IN /\ At(r) = "commit"
       /\ \E ok \in BOOLEAN :
             IF ok
             THEN Write(w, Executed([r EXCEPT !.commit_no = no], "commit"),
                        [dbTasks EXCEPT ![id] = Flushed(r, dbTasks[id])],
                        dbLists)
             ELSE Local(w, Ended(r, "commit_failed", 500))

\* db.refresh(task)
Refresh(w) ==
    LET r == reqs[w]
        id == r.args.task_id
    IN /\ At(r) = "refresh"
       /\ Local(w, Executed([r EXCEPT !.loaded = dbTasks[id],
                                      !.row = dbTasks[id]], "refresh"))

\* a notification operation was called and logged its e-mail
Issued(r, stmt, call) ==
    Executed([r EXCEPT !.mails = r.mails \o call.mails], stmt)

\* status change: if task.user_id: assigned_user = get_user_by_id(...);
\* if assigned_user: send_task_status_change_notification
NotifyStatus(w) ==
    LET r == reqs[w]
        assigned_user == IF r.row.user_id # None
                         THEN get_user_by_id(dbUsers, r.row.user_id) ELSE None
    IN /\ At(r) = "notify_status"
       /\ Local(w, IF assigned_user # None
                   THEN Issued(r, "notify_status",
                               send_task_status_change_notification(
                                   r.row, r.old_status, assigned_user, FALSE))
                   ELSE Executed(r, "skip"))

\* assign: send_task_assignment_notification(task, user)
NotifyAssignment(w) ==
    LET r == reqs[w]
    IN /\ At(r) = "notify_assignment"
       /\ Local(w, Issued(r, "notify_assignment",
                          send_task_assignment_notification(r.row, r.user,
                                                            FALSE)))

\* assign: the previous user, when there was another one, is looked up and
\* told
NotifyPrevious(w) ==
    LET r == reqs[w]
        previous_user == IF r.previous_user_id # None
                            /\ r.previous_user_id # r.args.user_id
                         THEN get_user_by_id(dbUsers, r.previous_user_id)
                         ELSE None
    IN /\ At(r) = "notify_previous"
       /\ Local(w, IF previous_user # None
                   THEN Issued(r, "notify_previous",
                               send_task_unassignment_notification(
                                   r.row, previous_user, FALSE))
                   ELSE Executed(r, "skip"))

\* unassign: if unassigned_user: send_task_unassignment_notification
NotifyUnassignment(w) ==
    LET r == reqs[w]
    IN /\ At(r) = "notify_unassignment"
       /\ Local(w, IF r.user # None
                   THEN Issued(r, "notify_unassignment",
                               send_task_unassignment_notification(
                                   r.row, r.user, FALSE))
                   ELSE Executed(r, "skip"))

NextRace ==
    \/ \E w \in Workers : Begin(w)
    \/ \E w \in Workers : GetByName(w)
    \/ \E w \in Workers : Create(w)
    \/ \E w \in Workers : GetTask(w)
    \/ \E w \in Workers : GetUser(w)
    \/ \E w \in Workers : GetUnassignedUser(w)
    \/ \E w \in Workers : Commit(w)
    \/ \E w \in Workers : Refresh(w)
    \/ \E w \in Workers : NotifyStatus(w)
    \/ \E w \in Workers : NotifyAssignment(w)
    \/ \E w \in Workers : NotifyPrevious(w)
    \/ \E w \in Workers : NotifyUnassignment(w)

SpecRace == InitRace /\ [][NextRace]_vars

(***************************************************************************)
(* CompletionPercentage: app/domain/value_objects.py                       *)
(* (specification SpecPercent)                                             *)
(*                                                                         *)
(* A percentage is the exact quotient num / den of two integers, den > 0,  *)
(* which is what the float arithmetic yields for task counts.              *)
(***************************************************************************)

\* task counts given to the calculation range over -2..MaxCount
MaxCount == 8

Counts == (-2)..MaxCount

Quotient(num, den) ==
    IF den > 0 THEN [num |-> num, den |-> den] ELSE [num |-> -num, den |-> -den]

\* the constructor accepting any value
CompletionPercentage_unchecked(value) == Valid(value)

\* CompletionPercentage(value=...): Field(ge=0, le=100)
CompletionPercentage(value) ==
    IF value.num >= 0 /\ value.num <= 100 * value.den THEN Valid(value)
    ELSE Invalid

\* CompletionPercentage.calculate_from_tasks
calculate_from_tasks(total_tasks, completed_tasks) ==
    IF total_tasks = 0 THEN CompletionPercentage(Quotient(0, 1))
    ELSE CompletionPercentage(Quotient(completed_tasks * 100, total_tasks))

\* TaskList.calculate_completion_percentage
calculate_completion_percentage(total_tasks, completed_tasks) ==
    calculate_from_tasks(total_tasks, completed_tasks)

\* Two counts are at hand; nothing was calculated from them yet.
InitPercent ==
    /\ IdleEntity
    /\ dbTasks = <<>>
    /\ dbUsers = {}
    /\ dbLists = <<>>
    /\ resp = NoResp
    /\ notifs = <<>>
    /\ reqs = NoReqs
    /\ \E total \in Counts, completed_ \in Counts :
          ret = [op |-> "none",
                 args |-> [total |-> total, completed |-> completed_]]

CalculateFromTasks ==
    Construct("calculate_from_tasks",
              calculate_from_tasks(ret.args.total, ret.args.completed))

CalculateCompletionPercentage ==
    Construct("calculate_completion_percentage",
              calculate_completion_percentage(ret.args.total,
                                              ret.args.completed))

\* CompletionPercentage(value=completed / total) built directly
NewCompletionPercentage ==
    /\ ret.args.total # 0
    /\ Construct("CompletionPercentage",
                 CompletionPercentage(Quotient(ret.args.completed,
                                               ret.args.total)))

NextPercent ==
    \/ CalculateFromTasks
    \/ CalculateCompletionPercentage
    \/ NewCompletionPercentage

SpecPercent == InitPercent /\ [][NextPercent]_vars

(***************************************************************************)
(* Properties of the domain entity (checked under SpecTask)                *)
(***************************************************************************)

Mutators == {"change_status", "assign_to_user", "unassign_user",
             "update_title", "update_description", "change_priority"}

\* the last call was a lifecycle mutation that returned normally
SuccessfulMutation == last.op \in Mutators /\ ~last.raised

\* the transition table as section 4.2 of the specification states it
TransitionTable ==
    {<<pending, in_progress>>, <<pending, completed>>,
     <<in_progress, pending>>, <<in_progress, completed>>,
     <<completed, pending>>, <<completed, in_progress>>}

C3_RejectedLeavesTaskUntouched ==
    (last.op = "change_status" /\ last.raised) =>
        /\ task.status = last.before.status
        /\ task.updated_at = last.before.updated_at
        /\ task.user_id = last.before.user_id
        /\ task.title = last.before.title
        /\ task.description = last.before.description
        /\ task.priority = last.before.priority
        /\ task = last.before

\* C3 witness: a change_status call was rejected at a moment when the clock
\* reads later than the task's updated_at (a refresh would have shown)
C3_Witness ==
    /\ last.op = "change_status"
    /\ last.raised
    /\ last.now > last.before.updated_at
    /\ last.before.user_id # None

\* C5 as claimed: after every successful lifecycle mutation updated_at is
\* strictly greater than it was before the mutation.
C5_UpdatedAtStrictlyIncreases ==
    SuccessfulMutation => task.updated_at > last.before.updated_at

\* C5 amended: every successful lifecycle mutation sets updated_at to the
\* reading of the clock it takes; so updated_at does not decrease when the old
\* value was not ahead of the clock, and is strictly greater exactly when the
\* reading is later than the old value.
C5_UpdatedAtRefreshedToNow ==
    SuccessfulMutation =>
        /\ task.updated_at = last.now
        /\ last.before.updated_at <= last.now
              => task.updated_at >= last.before.updated_at
        /\ (task.updated_at > last.before.updated_at)
              <=> (last.now > last.before.updated_at)

\* C5 witness: two mutations back to back within one clock reading, the second
\* leaving updated_at equal to what the first had set
C5_Witness ==
    /\ SuccessfulMutation
    /\ prevOp \in Mutators
    /\ last.before.updated_at = last.now
    /\ task.updated_at = last.before.updated_at
    /\ task # last.before

\* C6 as claimed: updated_at >= created_at in every reachable state of a Task,
\* constructed with or without caller-supplied timestamps; when none is
\* supplied at construction, updated_at equals created_at.
C6_UpdatedNotBeforeCreated ==
    /\ task.updated_at >= task.created_at
    /\ (last.op = "init" /\ last.arg.created_at = None
                         /\ last.arg.updated_at = None)
          => task.updated_at = task.created_at

\* C7: assign_to_user(u) followed by unassign_user() leaves user_id null and
\* title, description, priority, status, task_list_id, id and created_at as
\* they were before the two calls; neither call fails.
C7_AssignThenUnassign ==
    [][(last.op = "assign_to_user" /\ last'.op = "unassign_user")
        => /\ ~last.raised
           /\ ~last'.raised
           /\ task.user_id = last.arg
           /\ task'.user_id = None
           /\ task'.title = last.before.title
           /\ task'.description = last.before.description
           /\ task'.priority = last.before.priority
           /\ task'.status = last.before.status
           /\ task'.task_list_id = last.before.task_list_id
           /\ task'.id = last.before.id
           /\ task'.created_at = last.before.created_at]_vars

\* C7 witness: unassign_user has just followed assign_to_user on a task that
\* is not pending, and user_id is null
C7_Witness ==
    /\ last.op = "unassign_user"
    /\ prevOp = "assign_to_user"
    /\ ~last.raised
    /\ last.before.user_id # None
    /\ task.user_id = None
    /\ task.status # pending

(***************************************************************************)
(* Properties of the request path (checked under Spec)                     *)
(***************************************************************************)

\* the last request was a status change (endpoint or use case) that reached an
\* existing task
StatusRequest ==
    /\ resp.op \in {"change_task_status_endpoint", "change_task_status"}
    /\ resp.code # 401
    /\ resp.before # NoRow

\* the addressed row as it is stored now
Stored == RowOf(dbTasks, resp.task_id)

\* the user a user_id refers to, None when the id is null or names no stored
\* user
UserOf(user_id) ==
    IF user_id # None /\ user_id \in dbUsers THEN user_id ELSE None

\* C2 as claimed: the request path applies the transition table; a request
\* whose target status equals the stored status (in_progress again after a
\* move to in_progress) fails and leaves the stored status unchanged, and only
\* requests whose target differs from the current status succeed.
C2_RequestPathRejectsSelfTransition ==
    StatusRequest =>
        /\ resp.arg = resp.before.status
              => (resp.code # 200 /\ Stored.status = resp.before.status)
        /\ resp.code = 200 => <<resp.before.status, resp.arg>> \in TransitionTable

\* C4 as claimed: a stored task's status is pending at creation whatever the
\* creation request contains; from every status each other status is reached
\* by a single successful change request; no successful change request is a
\* self-loop.
C4_StatusStateMachine ==
    /\ (resp.op = "create_task_endpoint" /\ resp.code = 201)
          => Stored.status = pending
    /\ \A id \in DOMAIN dbTasks : \A s \in TaskStatus \ {dbTasks[id].status} :
          LET out == change_task_status_endpoint(Db, id, s, NoFailure)
          IN out.code = 200 /\ out.db.tasks[id].status = s
    /\ (StatusRequest /\ resp.code = 200) => resp.arg # resp.before.status

\* the e-mails of a sequence of notification calls that were logged: those
\* whose call returned true
Logged(mails, results) ==
    LET kept == SelectSeq([k \in 1..Len(mails) |-> k], LAMBDA k : results[k])
    IN [j \in 1..Len(kept) |-> mails[kept[j]]]

\* C8: a successful status-change request on a task assigned to a (stored)
\* user issues exactly one status-change notification, to that user, carrying
\* the status the task had before the request (its e-mail is logged unless
\* the operation fails internally); with no assigned user no notification is
\* issued and the request still succeeds, the notification operation itself
\* returning true for a missing user.
C8_StatusChangeNotification ==
    (resp.op = "change_task_status_endpoint" /\ resp.code # 401
        /\ resp.before # NoRow) =>
        LET user == UserOf(resp.before.user_id)
        IN /\ resp.code = 200
           /\ Stored.status = resp.arg
           /\ user # None =>
                /\ Len(resp.results) = 1
                /\ notifs = Logged(<<[kind |-> "status_change", to |-> user,
                                      task_id |-> resp.task_id,
                                      old_status |-> resp.before.status,
                                      status |-> resp.arg]>>, resp.results)
           /\ user = None => (notifs = <<>> /\ resp.results = <<>>)
           /\ \A fails \in BOOLEAN :
                send_task_status_change_notification(
                    Stored, resp.before.status, None, fails)
                  = [raised |-> FALSE, result |-> TRUE, mails |-> <<>>]

\* C8 witness: a status change of an assigned task from in_progress to
\* completed was notified to the assignee
C8_Witness ==
    /\ resp.op = "change_task_status_endpoint"
    /\ resp.code = 200
    /\ resp.before.user_id \in dbUsers
    /\ resp.before.status = in_progress
    /\ resp.arg = completed
    /\ resp.results = <<TRUE>>
    /\ Len(notifs) = 1

\* C9: a successful assign request for an existing task and an existing user U
\* stores user_id = U and issues exactly one assignment notification, to U; it
\* issues an unassignment notification, to the previously assigned user P, if
\* and only if P was set (to a stored user) and P # U. The e-mail of each
\* notification is logged unless the operation fails internally.
C9_AssignNotifications ==
    (resp.op = "assign_task_endpoint" /\ resp.code # 401
        /\ resp.before # NoRow /\ resp.arg \in dbUsers) =>
        LET U == resp.arg
            P == UserOf(resp.before.user_id)
            assignment == [kind |-> "assignment", to |-> U,
                           task_id |-> resp.task_id, old_status |-> NoneStr,
                           status |-> Stored.status]
            unassignment == [kind |-> "unassignment", to |-> P,
                             task_id |-> resp.task_id, old_status |-> NoneStr,
                             status |-> Stored.status]
        IN /\ resp.code = 200
           /\ Stored.user_id = U
           /\ Stored = [resp.before EXCEPT !.user_id = U]
           /\ Len(resp.results) = IF P # None /\ P # U THEN 2 ELSE 1
           /\ notifs = Logged(IF P # None /\ P # U
                               THEN <<assignment, unassignment>>
                               ELSE <<assignment>>, resp.results)

\* C9 witness: a task assigned to one stored user was assigned to another
\* one, and both were notified
C9_Witness ==
    /\ resp.op = "assign_task_endpoint"
    /\ resp.code = 200
    /\ resp.before.user_id \in dbUsers
    /\ resp.before.user_id # resp.arg
    /\ resp.results = <<TRUE, TRUE>>
    /\ Len(notifs) = 2

\* C10: an unassign request on an existing task succeeds and leaves user_id
\* null; it issues an unassignment notification, to the user assigned before
\* the request, if and only if a (stored) user was assigned before the
\* request (its e-mail is logged unless the operation fails internally); on
\* an unassigned task it issues nothing and is no error.
C10_UnassignNotification ==
    (resp.op = "unassign_task_endpoint" /\ resp.code # 401
        /\ resp.before # NoRow) =>
        LET P == UserOf(resp.before.user_id)
        IN /\ resp.code = 200
           /\ Stored = [resp.before EXCEPT !.user_id = None]
           /\ Len(resp.results) = IF P # None THEN 1 ELSE 0
           /\ notifs = Logged(IF P # None
                               THEN <<[kind |-> "unassignment", to |-> P,
                                       task_id |-> resp.task_id,
                                       old_status |-> NoneStr,
                                       status |-> Stored.status]>>
                               ELSE <<>>, resp.results)

\* C10 witness: an assigned task was unassigned and its former assignee
\* notified
C10_Witness ==
    /\ resp.op = "unassign_task_endpoint"
    /\ resp.code = 200
    /\ resp.before.user_id \in dbUsers
    /\ Stored.user_id = None
    /\ resp.results = <<TRUE>>
    /\ Len(notifs) = 1

\* the requests that call notification operations
NotifyingOps ==
    {"change_task_status_endpoint", "assign_task_endpoint",
     "unassign_task_endpoint"}

\* C17: none of the three notification operations raises: when building or
\* sending the message fails internally it returns false; a false result never
\* turns the committed assign, unassign or status-change request into an
\* error and never undoes the persisted change.
C17_NotificationFailureIsSwallowed ==
    /\ \A row \in {Stored} \ {NoRow}, user \in dbUsers :
          /\ send_task_assignment_notification(row, user, TRUE) = Failed
          /\ send_task_unassignment_notification(row, user, TRUE) = Failed
          /\ send_task_status_change_notification(row, row.status, user, TRUE)
               = Failed
          /\ ~Failed.raised /\ ~Failed.result
    /\ (resp.op \in NotifyingOps /\ \E k \in 1..Len(resp.results) :
                                        ~resp.results[k]) =>
          /\ resp.code = 200
          /\ resp.op = "change_task_status_endpoint"
                => Stored = [resp.before EXCEPT !.status = resp.arg]
          /\ resp.op = "assign_task_endpoint"
                => Stored = [resp.before EXCEPT !.user_id = resp.arg]
          /\ resp.op = "unassign_task_endpoint"
                => Stored = [resp.before EXCEPT !.user_id = None]
          /\ Len(notifs) = Len(SelectSeq(resp.results, LAMBDA r : r))

\* C17 witness: the status-change notification of a request that moved an
\* assigned task to completed failed, the request succeeded and the task is
\* stored as completed
C17_Witness ==
    /\ resp.op = "change_task_status_endpoint"
    /\ resp.results = <<FALSE>>
    /\ resp.before.status = pending
    /\ resp.arg = completed
    /\ resp.code = 200
    /\ Stored.status = completed
    /\ notifs = <<>>

(***************************************************************************)
(* Properties of the listings (checked under SpecList)                     *)
(***************************************************************************)

\* the stored tasks of a task list
TasksOf(task_list_id) ==
    {i \in DOMAIN dbTasks : dbTasks[i].task_list_id = task_list_id}

CompletedOf(task_list_id) ==
    {i \in TasksOf(task_list_id) : dbTasks[i].status = completed}

\* the stored tasks that satisfy every supplied filter of a listing
Matching(args) ==
    {i \in DOMAIN dbTasks :
        /\ args.task_list_id # None => dbTasks[i].task_list_id = args.task_list_id
        /\ args.status # NoneStr => dbTasks[i].status = args.status
        /\ args.priority # NoneStr => dbTasks[i].priority = args.priority
        /\ args.user_id # None => dbTasks[i].user_id = args.user_id}

\* the last direct call was list_tasks for an existing task list
ListedExisting ==
    /\ ret.op = "list_tasks"
    /\ ret.args.task_list_id \in DOMAIN dbLists

\* the page a listing returned
Page == IF ret.op = "list_tasks" THEN ret.out.result.tasks ELSE ret.out.result

\* C11 as claimed: for an existing task list, total, completed and
\* percent_complete of list_tasks are computed over all tasks of the list and
\* are the same for every choice of filters, skip and limit, while the page
\* holds only tasks that match the filters; percent_complete is
\* completed/total*100 rounded to 2 decimals (here in hundredths), 0 for an
\* empty list.
C11_AggregateIgnoresFilters ==
    ListedExisting =>
        LET l == ret.args.task_list_id
            r == ret.out.result
            total == Cardinality(TasksOf(l))
            done == Cardinality(CompletedOf(l))
        IN /\ ~ret.out.raised
           /\ r.total = total
           /\ r.completed = done
           /\ total = 0 => r.percent_complete = 0
           /\ total # 0 =>
                /\ 2 * (r.percent_complete * total - 10000 * done) <= total
                /\ 2 * (10000 * done - r.percent_complete * total) <= total
           /\ \A k \in 1..Len(r.tasks) : r.tasks[k].id \in Matching(ret.args)
           /\ \A status \in StatusFilters, priority \in PriorityFilters,
                 user_id \in UserFilters, skip \in Skips, limit \in Limits :
                LET o == list_tasks(Db, l, status, priority, user_id, skip,
                                    limit).result
                IN /\ o.total = r.total
                   /\ o.completed = r.completed
                   /\ o.percent_complete = r.percent_complete

\* C12 as claimed: for every existing task list, whatever number of tasks it
\* holds, list_tasks returns total = the number of all stored tasks of the
\* list and completed = the number of those that are completed.
C12_AggregateOverFullList ==
    ListedExisting =>
        /\ ~ret.out.raised
        /\ ret.out.result.total = Cardinality(TasksOf(ret.args.task_list_id))
        /\ ret.out.result.completed
             = Cardinality(CompletedOf(ret.args.task_list_id))

\* C13: list_tasks for a task_list_id that names no task list raises
\* NotFoundException before any task query is executed: the only query it ran
\* is the lookup of the task list, and it returns no result.
C13_MissingListRaisesFirst ==
    (ret.op = "list_tasks" /\ ret.args.task_list_id \notin DOMAIN dbLists) =>
        /\ ret.out.raised
        /\ \A k \in 1..Len(ret.out.queries) :
              ret.out.queries[k] \notin {"TaskRepository.get_tasks_with_filters",
                                         "TaskRepository.get_by_task_list_id"}
        /\ ret.out.queries = <<"TaskListRepository.get_by_id">>
        /\ "result" \notin DOMAIN ret.out

\* C13 witness: list_tasks was called with filters for a missing task list
\* while tasks are stored, and raised
C13_Witness ==
    /\ ret.op = "list_tasks"
    /\ ret.args.task_list_id \notin DOMAIN dbLists
    /\ ret.args.status = pending
    /\ DOMAIN dbTasks # {}
    /\ ret.out.raised

\* C14: the page of list_tasks and of list_all_tasks holds exactly the stored
\* tasks that satisfy every supplied filter (an omitted filter constrains
\* nothing), taken in stored order from offset skip and cut to at most limit
\* elements; pagination.returned is the page length and never exceeds limit;
\* list_all_tasks never raises, runs the one filtered query and returns the
\* page alone, with no aggregate.
C14_PageIsFilteredSlice ==
    (ret.op \in {"list_tasks", "list_all_tasks"} /\ ~ret.out.raised) =>
        LET M == Matching(ret.args)
            rest == Cardinality(M) - ret.args.skip
        IN /\ Len(Page) = Min(ret.args.limit, IF rest > 0 THEN rest ELSE 0)
           /\ Len(Page) <= ret.args.limit
           /\ \A k \in 1..Len(Page) :
                /\ Page[k].id \in M
                /\ Page[k] = dbTasks[Page[k].id]
                /\ Cardinality({i \in M : i < Page[k].id})
                     = ret.args.skip + k - 1
           /\ ret.op = "list_tasks" =>
                /\ ret.out.result.pagination.returned = Len(Page)
                /\ ret.out.result.pagination.returned <= ret.args.limit
           /\ ret.op = "list_all_tasks" =>
                /\ ret.out.queries = <<"TaskRepository.get_tasks_with_filters">>
                /\ DOMAIN ret.out.result = 1..Len(Page)

\* C14 witness: list_all_tasks with a priority filter, skip 1 and limit 1
\* returned the second of three matching tasks, a fourth task not matching
C14_Witness ==
    /\ ret.op = "list_all_tasks"
    /\ ret.args.priority = high
    /\ ret.args.skip = 1
    /\ ret.args.limit = 1
    /\ Cardinality(Matching(ret.args)) = 3
    /\ Cardinality(DOMAIN dbTasks) = 4
    /\ Len(Page) = 1
    /\ Page[1].id = 3

(***************************************************************************)
(* Properties of the ownership of tasks (checked under SpecStore)          *)
(***************************************************************************)

\* a table after the insertion of exactly one row, the other rows unchanged
OneRowAdded(before, after) ==
    \E id \in DOMAIN after \ DOMAIN before :
        /\ DOMAIN after = DOMAIN before \cup {id}
        /\ \A i \in DOMAIN before : after[i] = before[i]

\* C15: create_task_list with a name that a stored task list already has
\* fails with ConflictException (409) and stores nothing: the task lists are
\* unchanged; with an unused name it stores exactly one new task list, which
\* carries that name.
C15_NameConflictStoresNothing ==
    [][(resp'.op = "create_task_list_endpoint" /\ resp'.code # 401) =>
          IF \E i \in DOMAIN dbLists : dbLists[i].name = resp'.arg
          THEN /\ resp'.code = 409
               /\ dbLists' = dbLists
               /\ dbTasks' = dbTasks
          ELSE /\ resp'.code = 201
               /\ OneRowAdded(dbLists, dbLists')
               /\ \A id \in DOMAIN dbLists' \ DOMAIN dbLists :
                      dbLists'[id].name = resp'.arg
               /\ dbTasks' = dbTasks]_vars

\* C15 witness: a second task list named like the stored one was refused,
\* the stored list owning a task
C15_Witness ==
    /\ resp.op = "create_task_list_endpoint"
    /\ resp.code = 409
    /\ \E i \in DOMAIN dbLists : dbLists[i].name = resp.arg
    /\ Cardinality(DOMAIN dbLists) = 1
    /\ DOMAIN dbTasks # {}

\* C16: after any sequence of create-task-list, create-task, delete-task and
\* delete-task-list requests every stored task's task_list_id is the id of a
\* stored task list; deleting a task list destroys every task of the list and
\* leaves the tasks of the other lists untouched; create_task stores no task
\* under a list that does not exist.
C16_TasksBelongToStoredLists ==
    /\ [](\A i \in DOMAIN dbTasks : dbTasks[i].task_list_id \in DOMAIN dbLists)
    /\ [][(resp'.op = "delete_task_list_endpoint" /\ resp'.code = 204) =>
             /\ resp'.arg \in DOMAIN dbLists
             /\ resp'.arg \notin DOMAIN dbLists'
             /\ DOMAIN dbTasks'
                  = {i \in DOMAIN dbTasks : dbTasks[i].task_list_id # resp'.arg}
             /\ \A i \in DOMAIN dbTasks' : dbTasks'[i] = dbTasks[i]]_vars
    /\ [][(resp'.op = "create_task_endpoint"
             /\ resp'.arg.task_list_id \notin DOMAIN dbLists)
             => dbTasks' = dbTasks]_vars

\* C16 witness: a task list that owned a task was deleted, the task is gone
\* and a task of another list is still stored
C16_Witness ==
    /\ resp.op = "delete_task_list_endpoint"
    /\ resp.code = 204
    /\ resp.before # NoRow
    /\ resp.before.task_list_id = resp.arg
    /\ resp.before.id \notin DOMAIN dbTasks
    /\ DOMAIN dbTasks # {}
    /\ DOMAIN dbLists # {}

\* C18: create_task with a task_list_id naming no task list raises
\* NotFoundException (404) and persists no task: the stored tasks are
\* unchanged; with an existing list it persists exactly one task, under that
\* list.
C18_CreateTaskNeedsList ==
    [][(resp'.op = "create_task_endpoint" /\ resp'.code # 401) =>
          IF resp'.arg.task_list_id \notin DOMAIN dbLists
          THEN /\ resp'.code = 404
               /\ dbTasks' = dbTasks
          ELSE /\ resp'.code = 201
               /\ OneRowAdded(dbTasks, dbTasks')
               /\ \A id \in DOMAIN dbTasks' \ DOMAIN dbTasks :
                      dbTasks'[id].task_list_id = resp'.arg.task_list_id]_vars

\* C18 witness: a task creation for a missing task list was refused while
\* another task list and a task of it are stored
C18_Witness ==
    /\ resp.op = "create_task_endpoint"
    /\ resp.code = 404
    /\ resp.arg.task_list_id \notin DOMAIN dbLists
    /\ DOMAIN dbLists # {}
    /\ DOMAIN dbTasks # {}

(***************************************************************************)
(* Properties of the value objects (checked under SpecValue)               *)
(***************************************************************************)

\* a string without its leading and trailing whitespace
Trimmed(v) ==
    LET inked == {k \in 1..Len(v) : v[k] # " "}
    IN IF inked = {} THEN <<>>
       ELSE SubSeq(v, CHOOSE k \in inked : \A j \in inked : k <= j,
                      CHOOSE k \in inked : \A j \in inked : j <= k)

\* C19 as claimed: construction of a TaskTitle (max 200) or TaskListName (max
\* 100) succeeds if and only if the input, after trimming leading and
\* trailing whitespace, has a length between 1 and the maximum inclusive; on
\* success the stored value is the trimmed string.
C19_TrimmedLengthDecides ==
    ret.op \in {"TaskTitle", "TaskListName"} =>
        LET max == IF ret.op = "TaskTitle" THEN TitleMaxLength
                   ELSE NameMaxLength
            trimmed == Trimmed(ret.args)
        IN /\ (~ret.out.raised) <=> (Len(trimmed) >= 1 /\ Len(trimmed) <= max)
           /\ ~ret.out.raised => ret.out.value = trimmed

\* C20 as claimed: UserEmail construction fails when the input does not have
\* the local@domain.tld shape or is longer than 100 characters; every
\* constructed UserEmail stores a value that is lowercased, has no leading or
\* trailing whitespace and itself has the local@domain.tld shape, so that
\* validating the stored value again succeeds and yields the same value.
C20_StoredEmailIsValid ==
    ret.op = "UserEmail" =>
        /\ (~matches_pattern(ret.args) \/ Len(ret.args) > EmailMaxLength)
              => ret.out.raised
        /\ ~ret.out.raised =>
              LET value == ret.out.value
              IN /\ value = lower(value)
                 /\ value = Trimmed(value)
                 /\ matches_pattern(value)
                 /\ UserEmail(value) = Valid(value)

(***************************************************************************)
(* Properties of CompletionPercentage (checked under SpecPercent)          *)
(***************************************************************************)

\* C21: calculate_from_tasks(total, completed) returns 0 when total is 0 and
\* otherwise completed/total*100 ((0,0) gives 0, (4,2) gives 50, (3,3) gives
\* 100); every CompletionPercentage that exists has a value in [0,100]: for
\* 0 <= completed <= total the result is in range, and for counts that would
\* give a value outside [0,100] construction fails.
C21_PercentageInRange ==
    /\ ret.op \in {"calculate_from_tasks", "calculate_completion_percentage"} =>
          LET total == ret.args.total
              done == ret.args.completed
              out == ret.out
          IN /\ total = 0 => (~out.raised /\ out.value.num = 0)
             /\ (total # 0 /\ ~out.raised)
                   => out.value.num * total = done * 100 * out.value.den
             /\ (total = 4 /\ done = 2)
                   => (~out.raised /\ out.value.num = 50 * out.value.den)
             /\ (total = 3 /\ done = 3)
                   => (~out.raised /\ out.value.num = 100 * out.value.den)
             /\ (0 <= done /\ done <= total) => ~out.raised
             /\ (total > 0 /\ (done > total \/ done < 0)) => out.raised
             /\ (total < 0 /\ (done < total \/ done > 0)) => out.raised
    /\ (ret.op # "none" /\ ~ret.out.raised) =>
          /\ ret.out.value.den > 0
          /\ 0 <= ret.out.value.num
          /\ ret.out.value.num <= 100 * ret.out.value.den

\* C21 witness: calculate_from_tasks was refused for more completed tasks
\* than tasks
C21_Witness ==
    /\ ret.op = "calculate_from_tasks"
    /\ ret.args.total = 3
    /\ ret.args.completed = 4
    /\ ret.out.raised

(***************************************************************************)
(* Properties of the task requests (checked under Spec)                    *)
(***************************************************************************)

\* C27 as claimed: an assign request on a stored task that names a user id
\* no stored user has ends in 404, the outcome of a missing task; it leaves
\* the stored user_id unchanged and issues no notification.
C27_AssignUnknownUserIsNotFound ==
    (resp.op = "assign_task_endpoint" /\ resp.code # 401
        /\ resp.before # NoRow /\ resp.arg \notin dbUsers) =>
        /\ resp.code = 404
        /\ Stored = resp.before
        /\ notifs = <<>>
        /\ resp.results = <<>>

\* the requests that may set user_id of a stored task
AssigningOps == {"assign_task_endpoint", "update_task_endpoint"}

\* C28 as claimed: whenever a task request (PATCH assign, or PUT update with
\* a user_id) commits a change of the stored user_id to a user U, an
\* assignment notification for U is issued, and an unassignment notification
\* to the previously assigned user when there was one, different from U.
C28_AssignmentChangeIsNotified ==
    (resp.op \in AssigningOps /\ resp.code = 200 /\ resp.before # NoRow
        /\ Stored.user_id # resp.before.user_id
        /\ Stored.user_id \in dbUsers) =>
        LET P == UserOf(resp.before.user_id)
        IN /\ Len(resp.results) = IF P # None THEN 2 ELSE 1
           /\ resp.results[1] =>
                (/\ notifs # <<>>
                 /\ notifs[1].kind = "assignment"
                 /\ notifs[1].to = Stored.user_id)
           /\ (P # None /\ resp.results[2]) =>
                (/\ notifs[Len(notifs)].kind = "unassignment"
                 /\ notifs[Len(notifs)].to = P)

\* C29 as claimed: after any sequence of create-task, update-task, assign and
\* unassign requests the user_id of every stored task is null or the id of a
\* stored user.
C29_AssigneeExists ==
    \A id \in DOMAIN dbTasks :
        dbTasks[id].user_id = None \/ dbTasks[id].user_id \in dbUsers

\* C30 as claimed: the old status of every status-change notification differs
\* from the new status it reports, and a status-change request whose target
\* equals the stored status issues no notification.
C30_NotificationOnlyOnChange ==
    /\ \A k \in 1..Len(notifs) :
          notifs[k].kind = "status_change"
             => notifs[k].old_status # notifs[k].status
    /\ (resp.op = "change_task_status_endpoint" /\ resp.before # NoRow
          /\ resp.arg = resp.before.status)
          => (notifs = <<>> /\ resp.results = <<>>)

(***************************************************************************)
(* Properties of the renaming of task lists (checked under SpecRename)     *)
(***************************************************************************)

RenameOps == {"update_task_list_endpoint", "update_task_list"}

\* C25 as claimed: after any sequence of create and rename operations taken
\* one at a time (create_task_list, the PUT task-list endpoint, use case
\* update_task_list) no two stored task lists share a name; a rename to a name
\* held by a different stored list is rejected with a conflict and leaves the
\* name unchanged; a rename of a list to its own current name succeeds.
C25_NamesStayUnique ==
    /\ \A i \in DOMAIN dbLists, j \in DOMAIN dbLists :
          dbLists[i].name = dbLists[j].name => i = j
    /\ (resp.op \in RenameOps /\ resp.code # 401
          /\ resp.arg.before # NoRow /\ resp.arg.name # NoneStr) =>
          LET id == resp.arg.task_list_id
          IN /\ resp.arg.holders \ {id} # {}
                   => (resp.code = 409 /\ dbLists[id] = resp.arg.before)
             /\ resp.arg.name = resp.arg.before.name
                   => (resp.code = 200 /\ dbLists[id] = resp.arg.before)

(***************************************************************************)
(* Properties of the authentication (checked under SpecAuth)               *)
(***************************************************************************)

\* the task and task-list endpoints
ProtectedOps ==
    {"create_task_list_endpoint", "get_task_list_endpoint",
     "list_task_lists_endpoint", "update_task_list_endpoint",
     "delete_task_list_endpoint", "create_task_endpoint", "get_task_endpoint",
     "list_tasks_endpoint", "update_task_endpoint",
     "change_task_status_endpoint", "assign_task_endpoint",
     "unassign_task_endpoint", "delete_task_endpoint"}

\* the header carries a token that verifies and whose subject is the e-mail
\* of a stored user
Entitled(header) ==
    /\ header # <<>>
    /\ header[1].signed
    /\ ~header[1].expired
    /\ header[1].payload.sub # None
    /\ header[1].payload.sub \in dbUsers

\* C22: every task and task-list endpoint (create, get, list, update, delete,
\* status change, assign, unassign) acts only for a token that verifies and
\* whose subject is the e-mail of a stored user: a request with no token, an
\* invalid token, an expired token or the token of a user that does not exist
\* ends in 401, returns no stored row and changes no task and no task list
\* (nor issues a notification); a request with a good token is never a 401.
C22_EndpointsNeedUser ==
    [][resp' # resp =>
          /\ resp'.op \in ProtectedOps
          /\ IF Entitled(resp'.arg.header)
             THEN resp'.code # 401
             ELSE /\ resp'.code = 401
                  /\ resp'.body = <<>>
                  /\ dbTasks' = dbTasks
                  /\ dbLists' = dbLists
                  /\ notifs' = <<>>
                  /\ resp'.results = <<>>]_vars

\* C22 witness: a delete request with the token of a user that does not exist
\* was refused, and the task it addressed is still stored
C22_Witness ==
    /\ resp.op = "delete_task_endpoint"
    /\ resp.arg.header # <<>>
    /\ resp.arg.header[1].signed
    /\ ~resp.arg.header[1].expired
    /\ resp.arg.header[1].payload.sub = 2
    /\ resp.code = 401
    /\ resp.task_id \in DOMAIN dbTasks

(***************************************************************************)
(* Properties of requests in flight together (checked under SpecRace)      *)
(***************************************************************************)

\* the workers whose request is a creation of a task list
Creators == {w \in Workers : reqs[w].op = "create_task_list_endpoint"}

\* C23: the uniqueness of task list names is a look-up followed by a write:
\* a creation request that found no list of its name at its look-up never
\* raises and persists its list, whatever was stored in between; so when two
\* creation requests of one name both pass get_by_name before either commits,
\* neither raises and two stored lists of that name result.
C23_RaceOnName ==
    /\ \A w \in Creators :
          reqs[w].code # 0 =>
             /\ reqs[w].code \in {201, 409}
             /\ reqs[w].code = 409 <=> reqs[w].existing # None
             /\ reqs[w].code = 201 =>
                   get_by_name(dbLists, reqs[w].args.name) # {}
    /\ \A w \in Creators, v \in Creators :
          (/\ w # v
           /\ reqs[w].args.name = reqs[v].args.name
           /\ reqs[w].code = 201
           /\ reqs[v].code = 201)
             => Cardinality(get_by_name(dbLists, reqs[w].args.name)) = 2

\* C23 witness: both workers created list "Sprint 2", and two stored lists
\* bear that name
C23_Witness ==
    /\ \A w \in Workers :
          /\ reqs[w].op = "create_task_list_endpoint"
          /\ reqs[w].args.name = "Sprint 2"
          /\ reqs[w].code = 201
    /\ \E i \in DOMAIN dbLists, j \in DOMAIN dbLists :
          /\ i # j
          /\ dbLists[i].name = "Sprint 2"
          /\ dbLists[j].name = "Sprint 2"

\* both workers handle a status-change request on the same stored task and
\* both committed
BothCommitted ==
    /\ \A w \in Workers :
          /\ reqs[w].op = "change_task_status_endpoint"
          /\ reqs[w].commit_no > 0
    /\ reqs[1].args.task_id = reqs[2].args.task_id

\* a status-change request is not rejected: it returns, is still in flight,
\* or ended because the store failed at its commit
NotRejected(r) ==
    \/ r.code \in {0, 200}
    \/ r.trace[Len(r.trace)] = "commit_failed"

StatusWriters ==
    {w \in Workers : /\ reqs[w].op = "change_task_status_endpoint"
                     /\ reqs[w].commit_no > 0
                     /\ reqs[w].args.status # reqs[w].old_status}

NotifyStatements ==
    {"notify_status", "notify_assignment", "notify_previous",
     "notify_unassignment"}

\* C26: in every status-change, assign and unassign request each notification
\* is issued only after the request committed its change; a request that
\* fails before or at its commit (task not found, target user not found,
\* storage error) issues no notification.
C26_NotifyAfterCommit ==
    \A w \in Workers :
        LET r == reqs[w]
        IN r.op \in NotifyingOps =>
              /\ \A k \in 1..Len(r.trace) :
                    r.trace[k] \in NotifyStatements
                       => \E j \in 1..(k - 1) : r.trace[j] = "commit"
              /\ r.mails # <<>> => r.commit_no > 0
              /\ r.code \notin {0, 200} =>
                    /\ r.mails = <<>>
                    /\ \A k \in 1..Len(r.trace) :
                          r.trace[k] \notin NotifyStatements
              /\ r.code = 404 => r.trace = <<"get_task">>
              /\ r.code = 500 =>
                    r.trace[Len(r.trace)] \in {"get_user", "commit_failed"}

\* C26 witness: the request of worker 1 failed at its commit and issued
\* nothing; the assign request of worker 2 committed and then issued its two
\* notifications
C26_Witness ==
    /\ reqs[1].op \in NotifyingOps
    /\ reqs[1].code = 500
    /\ reqs[1].trace[Len(reqs[1].trace)] = "commit_failed"
    /\ reqs[1].mails = <<>>
    /\ reqs[2].op = "assign_task_endpoint"
    /\ reqs[2].code = 200
    /\ reqs[2].trace = <<"get_task", "get_user", "commit", "refresh",
                         "notify_assignment", "notify_previous">>
    /\ Len(reqs[2].mails) = 2

====
